---- MODULE Spec2Model ----
(***************************************************************************)
(* The View Registry and the SQL agent of convo:                           *)
(*   src/src/convo/core/view_manager.py  (ViewManager, the View Store)     *)
(*   src/src/convo/core/sql_agent.py     (SQLAgent: prompt, execute)       *)
(* The View Store file, the ViewManager instances that cache it, the       *)
(* agent's own ViewManager and its cached view list are the state; one     *)
(* action per method call.  The DuckDB engine, the data lake and the file  *)
(* system are the environment: their outcomes are chosen with \E.          *)
(***************************************************************************)
EXTENDS Integers, Sequences, FiniteSets, TLC

VARIABLES
    file,          \* the backing JSON file: <<>> when absent, <<config>> otherwise
    stores,        \* stand-alone ViewManager instances: id -> <<>> | <<self.views>>
    agent,         \* the SQLAgent instance: its view_manager.views and available_views
    broken,        \* SQL bodies the engine currently rejects (the data lake changed)
    clock,         \* datetime.now(), in ticks
    lastMutation,  \* history: per name, the last successful mutation ("create"/"delete")
    saveFailures,  \* how many times writing the file has failed so far
    procs,         \* processes building a ViewManager or inside a create_view call
    llm,           \* what the text-generation API does at the next call: raise, or this text
    front,         \* the module-level agent of each front-end: "none" or "ready"
    ret            \* the last call: operation, arguments, outcome

vars == <<file, stores, agent, broken, clock, lastMutation, saveFailures, procs, llm, front, ret>>

-----------------------------------------------------------------------------
(* Bounds and input domains *)

MaxClock == 1

MaxSaveFailures == 1

MaxRawLen == 6
\* the most columns a result has
MaxColumns == 2
\* the most rows a result has
MaxFetched == 3
\* the largest limit a request carries
MaxLimit == 2
\* the most rows the conversation table holds
MaxRows == 3

StoreIds == {"cli"}

\* two manage_views.py processes that run create_view at the same time
Racers == {"p1", "p2"}

ViewNames == {"foo", "popular_actions"}

InvalidIdentifier == "bad name"

NonexistentSql == "SELECT * FROM nonexistent_table"

DailyCountsSql == "SELECT date, COUNT(*) AS c FROM t GROUP BY date"

ActionsSql == "SELECT action FROM t"

\* the body whose source the data lake may lose and regain
Breakable == {DailyCountsSql}

\* Text is a sequence of pieces: the Markdown fence (three backquotes, written
\* <fence> here), a language tag in lower and in upper case, a line break, a
\* statement
Fence == "<fence>"

Newline == "\n"

Statement == "SELECT 1"

LanguageTags == {"sql", "SQL"}

RawTokens == {Fence, Newline, Statement} \cup LanguageTags

RawTexts == UNION {[1..k -> RawTokens] : k \in 0..MaxRawLen}

\* what the API call of _generate_sql_openai / _generate_sql_google can do
GeneratorOutputs ==
    {[kind |-> "raises", text |-> <<>>]} \cup {[kind |-> "text", text |-> t] : t \in RawTexts}

\* a fenced block: the fence with its tag, the body on lines of its own, the fence
FencedBlock(tag, body) == <<Fence, tag, Newline>> \o body \o <<Newline, Fence>>

\* the answers ask is run on
AskOutputs ==
    {[kind |-> "raises", text |-> <<>>],
     [kind |-> "text", text |-> <<Statement>>],
     [kind |-> "text", text |-> <<>>],
     [kind |-> "text", text |-> FencedBlock("sql", <<Statement>>)],
     [kind |-> "text", text |-> FencedBlock("SQL", <<Statement>>)]}

\* the column names and the values of the results execute_query is run on
ColumnNames == {"a", "b"}

CellValues == {1, 2}

\* conn.description and fetchall() of a statement: the column names, which may
\* repeat, and rows with one value per column
ResultSets ==
    UNION {{[columns |-> c, rows |-> r] :
               c \in [1..k -> ColumnNames],
               r \in UNION {[1..n -> [1..k -> CellValues]] : n \in 0..MaxFetched}} : k \in 0..MaxColumns}

\* a statement over the whole conversation table
SelectAll == "SELECT * FROM conversation_entry"

\* f" LIMIT {limit}" for each limit, as the API appends it
LimitClauses == <<" LIMIT 1", " LIMIT 2", " LIMIT 3", " LIMIT 4">>

\* the same clauses as a generated statement spells them in lower case
LowerLimitClauses == <<" limit 1", " limit 2", " limit 3", " limit 4">>

\* the answers the API routes are run on: an error, a statement, and statements
\* that bring a LIMIT clause of their own
ApiOutputs ==
    {[kind |-> "raises", text |-> <<>>],
     [kind |-> "text", text |-> <<Statement>>],
     [kind |-> "text", text |-> <<SelectAll>>]} \cup
    {[kind |-> "text", text |-> <<SelectAll, LowerLimitClauses[n]>>] : n \in 1..(MaxLimit + 1)}

\* the front-ends that keep an agent of their own: query_chat.py and query_web.py
FrontEnds == {"chat", "web"}

\* the questions a front-end is handed: white space only, and a question
Questions == {<<Newline>>, <<"how many">>}

\* tags is Optional[List[str]]: <<>> models None, <<list>> a given list
CreateInputs ==
    { [description |-> "desc", sql_query |-> DailyCountsSql, tags |-> << <<"daily">> >>],
      [description |-> "desc2", sql_query |-> ActionsSql, tags |-> <<>>],
      [description |-> "desc", sql_query |-> NonexistentSql, tags |-> << <<>> >>] }

-----------------------------------------------------------------------------
(* The name-keyed mapping self.views["views"]: a Python dict keeps insertion *)
(* order, and json.dump / json.load keep it; a sequence of definitions.      *)

Keys(views) == {views[i].name : i \in 1..Len(views)}

Has(views, name) == \E i \in 1..Len(views) : views[i].name = name

IndexOf(views, name) == CHOOSE i \in 1..Len(views) : views[i].name = name

\* dict.get(name): <<>> is None
DictGet(views, name) == IF Has(views, name) THEN <<views[IndexOf(views, name)]>> ELSE <<>>

\* d.setdefault(name, def): an existing key keeps its old value
DictSet_SetDefault(views, name, def) == IF Has(views, name) THEN views ELSE Append(views, def)

\* d[name] = def: an existing key keeps its place, a new key goes last
DictSet(views, name, def) ==
    IF Has(views, name)
    THEN [views EXCEPT ![IndexOf(views, name)] = def]
    ELSE Append(views, def)

DictDel_Clear(views, name) == <<>>

\* del d[name]
DictDel(views, name) == SelectSeq(views, LAMBDA d : d.name # name)

-----------------------------------------------------------------------------
(* The engine (DuckDB), as the code uses it *)

\* conn.execute(q) raises for a body over a missing table or a broken source
Fails(sql_query, brk) == sql_query = NonexistentSql \/ sql_query \in brk

\* CREATE OR REPLACE VIEW <name> AS ... parses only for an SQL identifier
IsSqlIdentifier(name) == name # InvalidIdentifier

\* a connection's life in one call, as the events "open" and "close" in order;
\* the number of connections of the call that are open when it ends
OpenConnections(conn) ==
    Cardinality({i \in 1..Len(conn) : conn[i] = "open"}) - Cardinality({i \in 1..Len(conn) : conn[i] = "close"})

\* ViewManager methods: _get_duckdb_connection() opens, and the conn.close() that
\* ends the try block is the only close, so a statement that raises skips it
StoreConnection(ok) == IF ok THEN <<"open", "close">> ELSE <<"open">>

Finally_Forgotten(conn) == conn

\* SQLAgent.execute_query: finally: if conn: conn.close()
Finally(conn) == Append(conn, "close")

-----------------------------------------------------------------------------
(* ViewManager *)

\* _load_views_config on an absent file: default_config, after _save_views_config
DefaultConfig(now) == [version |-> "1.0", created |-> now, last_updated |-> now, views |-> <<>>]

\* tags or []
TagsOrEmpty(tags) == IF tags = <<>> THEN <<>> ELSE tags[1]

\* view_definition of create_view
ViewDefinition(view_name, description, sql_query, tags, now) ==
    [name |-> view_name, description |-> description, sql_query |-> sql_query,
     tags |-> TagsOrEmpty(tags), created |-> now, updated |-> now]

DuplicateName_Unchecked(views, view_name, replace) == FALSE

\* if not replace and view_name in self.views.get("views", {})
DuplicateName(views, view_name, replace) == ~replace /\ Has(views, view_name)

ValidateView_SkipsProbe(view_name, sql_query, connOk, brk) ==
    IF ~connOk THEN "connect"
    ELSE IF ~IsSqlIdentifier(view_name) THEN "create_view"
    ELSE "ok"

\* the try block of create_view: the step that raised, or "ok"
ValidateView(view_name, sql_query, connOk, brk) ==
    IF ~connOk THEN "connect"
    ELSE IF Fails(sql_query, brk) THEN "probe"
    ELSE IF ~IsSqlIdentifier(view_name) THEN "create_view"
    ELSE "ok"

\* _save_views_config: last_updated is set on the dict before the file is opened;
\* the assignment adds the key to a dict that has none
Stamp(config, now) ==
    [version |-> config.version, created |-> config.created, last_updated |-> now, views |-> config.views]

\* file contents json.load cannot parse, size bytes long: an empty file is one
Unreadable(size) == [unparseable |-> TRUE, size |-> size]

\* json.load(f) returns a document
IsParseable(f) == f # <<>> /\ "views" \in DOMAIN f[1]

\* _load_views_config on a file it cannot parse: the except branch logs the error
\* and returns this container, which has no last_updated
FallbackConfig(now) == [version |-> "1.0", created |-> now, views |-> <<>>]

\* datetime.now().isoformat() leaves the microseconds out when the read falls on
\* a whole second; the odd clock values stand for those reads
IsWholeSecond(t) == t % 2 = 1

\* the characters of datetime.now().isoformat(): YYYY-MM-DDTHH:MM:SS.ffffff, or
\* YYYY-MM-DDTHH:MM:SS on a whole second
IsoLen(t) == IF IsWholeSecond(t) THEN 19 ELSE 26

\* one line  "key": "value"  of json.dump(indent=2): the indentation, the quoted
\* key, colon and space, the quoted value, the comma if one follows, the newline
StringLine(indent, key, valueLen, comma) == indent + (Len(key) + 2) + 2 + (valueLen + 2) + comma + 1

\* the lines of the items of a tag list, each at indentation 8
RECURSIVE TagLines(_)
TagLines(tags) ==
    IF tags = <<>> THEN 0
    ELSE 8 + (Len(Head(tags)) + 2) + (IF Len(tags) > 1 THEN 1 ELSE 0) + 1 + TagLines(Tail(tags))

\* the bytes of "tags": [] with its comma and newline, or of the opening line,
\* the items and the closing line of a list that has items
TagsSize(tags) == IF tags = <<>> THEN 18 ELSE 16 + TagLines(tags) + 9

\* the bytes one view adds to the document, the comma that separates it from a
\* next view left out: the line of its key, its six fields, its closing brace
ViewSize(def) ==
    (4 + (Len(def.name) + 2) + 4)
    + StringLine(6, "name", Len(def.name), 1)
    + StringLine(6, "description", Len(def.description), 1)
    + StringLine(6, "sql_query", Len(def.sql_query), 1)
    + TagsSize(def.tags)
    + StringLine(6, "created", IsoLen(def.created), 1)
    + StringLine(6, "updated", IsoLen(def.updated), 0)
    + 6

RECURSIVE ViewsSize(_)
ViewsSize(views) ==
    IF views = <<>> THEN 0
    ELSE ViewSize(Head(views)) + (IF Len(views) > 1 THEN 1 ELSE 0) + ViewsSize(Tail(views))

\* how many bytes json.dump(config, f, indent=2) writes for a container that
\* _save_views_config stamped: the braces, version, created, the views mapping
\* ("views": {} when it is empty) and last_updated, with no newline at the end
DocSize(config) ==
    2 + StringLine(2, "version", Len(config.version), 1)
      + StringLine(2, "created", IsoLen(config.created), 1)
      + (IF config.views = <<>> THEN 15 ELSE 13 + ViewsSize(config.views) + 5)
      + StringLine(2, "last_updated", IsoLen(config.last_updated), 0)
      + 1

\* how long the file is
ContentSize(f) ==
    IF f = <<>> THEN 0
    ELSE IF IsParseable(f) THEN DocSize(f[1])
    ELSE f[1].size

\* closing the file flushes the document at offset 0 of what the file holds by
\* then: a longer content, written by another process since this one's open()
\* truncated the file, keeps its tail, and the file no longer parses
Overlay(config, f) ==
    IF DocSize(config) >= ContentSize(f) THEN <<config>> ELSE <<Unreadable(ContentSize(f))>>

\* the file after a method that ended in _save_views_config or before it;
\* open(path, 'w') truncates, then json.dump writes: "save" is an open() that
\* fails, "dump" a write that fails after the truncation
FileAfterSave(f, config, written, env) ==
    IF written THEN <<config>>
    ELSE IF env = "dump" THEN <<Unreadable(0)>>
    ELSE f

\* create_view on self.views = config: the new self.views, whether the file was
\* written, the result ("True" or the error raised) and the step that failed
create_view(config, view_name, input, replace, connOk, saveOk, brk, now) ==
    IF DuplicateName(config.views, view_name, replace)
    THEN [config |-> config, written |-> FALSE, result |-> "DuplicateNameError", step |-> "duplicate",
          conn |-> <<>>]
    ELSE LET v == ValidateView(view_name, input.sql_query, connOk, brk) IN
         IF v # "ok"
         THEN [config |-> config, written |-> FALSE, result |-> "InvalidViewDefinitionError", step |-> v,
               conn |-> StoreConnection(FALSE)]
         ELSE LET def == ViewDefinition(view_name, input.description, input.sql_query, input.tags, now)
                  new == Stamp([config EXCEPT !.views = DictSet(@, view_name, def)], now)
              IN  IF saveOk
                  THEN [config |-> new, written |-> TRUE, result |-> "True", step |-> "ok",
                        conn |-> StoreConnection(TRUE)]
                  ELSE [config |-> new, written |-> FALSE, result |-> "SaveError", step |-> "save",
                        conn |-> StoreConnection(TRUE)]

\* get_view
get_view(config, view_name) == DictGet(config.views, view_name)

\* list_views: list(self.views.get("views", {}).values())
list_views(config) == config.views

delete_view_RemovesFirst(config, view_name, connOk, dropOk, saveOk, now) ==
    IF ~Has(config.views, view_name)
    THEN [config |-> config, written |-> FALSE, result |-> "False", step |-> "absent", conn |-> <<>>]
    ELSE LET new == Stamp([config EXCEPT !.views = DictDel(@, view_name)], now) IN
         IF ~connOk
         THEN [config |-> new, written |-> FALSE, result |-> "EngineError", step |-> "connect",
               conn |-> StoreConnection(FALSE)]
         ELSE IF ~dropOk
         THEN [config |-> new, written |-> FALSE, result |-> "EngineError", step |-> "drop_view",
               conn |-> StoreConnection(FALSE)]
         ELSE IF saveOk
              THEN [config |-> new, written |-> TRUE, result |-> "True", step |-> "ok",
                    conn |-> StoreConnection(TRUE)]
              ELSE [config |-> new, written |-> FALSE, result |-> "SaveError", step |-> "save",
                    conn |-> StoreConnection(TRUE)]

\* delete_view on self.views = config
delete_view(config, view_name, connOk, dropOk, saveOk, now) ==
    IF ~Has(config.views, view_name)
    THEN [config |-> config, written |-> FALSE, result |-> "False", step |-> "absent", conn |-> <<>>]
    ELSE IF ~connOk
    THEN [config |-> config, written |-> FALSE, result |-> "EngineError", step |-> "connect",
          conn |-> StoreConnection(FALSE)]
    ELSE IF ~dropOk
    THEN [config |-> config, written |-> FALSE, result |-> "EngineError", step |-> "drop_view",
          conn |-> StoreConnection(FALSE)]
    ELSE LET new == Stamp([config EXCEPT !.views = DictDel(@, view_name)], now) IN
         IF saveOk
         THEN [config |-> new, written |-> TRUE, result |-> "True", step |-> "ok",
               conn |-> StoreConnection(TRUE)]
         ELSE [config |-> new, written |-> FALSE, result |-> "SaveError", step |-> "save",
               conn |-> StoreConnection(TRUE)]

\* default_views of create_default_views: every body reads FROM '{self.s3_path}'
DefaultViews ==
    << [name |-> "interactions_per_day", description |-> "Daily count of conversation interactions",
        sql_query |-> "SELECT date, COUNT(*) FROM s3_path GROUP BY date ORDER BY date DESC",
        tags |-> << <<"daily", "analytics", "summary">> >>],
       [name |-> "popular_actions", description |-> "Most common action types in conversations",
        sql_query |-> "SELECT action, COUNT(*) FROM s3_path WHERE action IS NOT NULL GROUP BY action ORDER BY COUNT(*) DESC",
        tags |-> << <<"actions", "popular", "percentage">> >>],
       [name |-> "active_sessions", description |-> "Sessions with multiple interactions (more engaging conversations)",
        sql_query |-> "SELECT session_id, COUNT(*) FROM s3_path GROUP BY session_id HAVING COUNT(*) > 1 ORDER BY COUNT(*) DESC",
        tags |-> << <<"sessions", "engagement", "duration">> >>],
       [name |-> "recent_conversations", description |-> "Conversations from the last 7 days",
        sql_query |-> "SELECT * FROM s3_path WHERE date >= CURRENT_DATE - INTERVAL 7 DAY ORDER BY question_created DESC",
        tags |-> << <<"recent", "preview", "last-week">> >>],
       [name |-> "location_activity", description |-> "Conversation activity by store location",
        sql_query |-> "SELECT location_id, COUNT(*) FROM s3_path WHERE location_id IS NOT NULL GROUP BY location_id ORDER BY COUNT(*) DESC",
        tags |-> << <<"location", "geography", "stores">> >>] >>

DefaultNames == {DefaultViews[i].name : i \in 1..Len(DefaultViews)}

DefaultBodies == {DefaultViews[i].sql_query : i \in 1..Len(DefaultViews)}

\* what the environment does to one create_default_views call: it fails the
\* connection or the file write of at most one of the create_view calls
DefaultsEnvs ==
    {[i \in 1..Len(DefaultViews) |-> IF i = k THEN kind ELSE "ok"] :
        k \in 0..Len(DefaultViews), kind \in {"connect", "save"}}

DefaultsReplace_Off == FALSE

\* replace=True in the create_view call of create_default_views
DefaultsReplace == TRUE

\* the for loop of create_default_views from the i-th default view on: each
\* create_view runs in its own try, whose except prints and goes on; acc is
\* self.views, the file, the step each call ended at and the connections so far
RECURSIVE create_default_views_from(_, _, _, _, _)
create_default_views_from(i, acc, envs, brk, now) ==
    IF i > Len(DefaultViews)
    THEN acc
    ELSE LET d == DefaultViews[i]
             r == create_view(acc.config, d.name,
                              [description |-> d.description, sql_query |-> d.sql_query, tags |-> d.tags],
                              DefaultsReplace, envs[i] # "connect", envs[i] # "save", brk, now)
         IN  create_default_views_from(i + 1,
                 [config |-> r.config,
                  file |-> IF r.written THEN <<r.config>> ELSE acc.file,
                  steps |-> Append(acc.steps, r.step),
                  conn |-> acc.conn \o r.conn],
                 envs, brk, now)

\* create_default_views on self.views = config and the file f: it returns None
\* whatever the create_view calls did
create_default_views(config, f, envs, brk, now) ==
    LET r == create_default_views_from(1, [config |-> config, file |-> f, steps |-> <<>>, conn |-> <<>>],
                                       envs, brk, now)
    IN  [config |-> r.config, file |-> r.file, steps |-> r.steps, conn |-> r.conn, result |-> "None"]

-----------------------------------------------------------------------------
(* SQLAgent *)

\* the view names the prompt text spells out in its EXAMPLES and VIEW USAGE
\* PRIORITY sections, whatever the store holds
StaticPromptViews ==
    {"interactions_per_day", "popular_actions", "active_sessions", "recent_conversations", "location_activity"}

\* DESCRIBE <view>: the column names of a body
ColumnsOf(sql_query) ==
    IF sql_query = DailyCountsSql THEN <<"date", "c">>
    ELSE IF sql_query = ActionsSql THEN <<"action">>
    ELSE <<>>

\* ViewManager._get_view_columns: [] on any failure
get_view_columns(def, connOk, brk) ==
    IF ~connOk \/ Fails(def.sql_query, brk) \/ ~IsSqlIdentifier(def.name)
    THEN <<>>
    ELSE ColumnsOf(def.sql_query)

\* the connection of one _get_view_columns call: closed after DESCRIBE only
get_view_columns_connection(def, connOk, brk) ==
    StoreConnection(connOk /\ ~Fails(def.sql_query, brk) /\ IsSqlIdentifier(def.name))

describe_columns_Raises(config, view_name, connOk, describeOk, brk) ==
    IF get_view(config, view_name) = <<>> \/ ~describeOk
    THEN [result |-> "raised", columns |-> <<>>, conn |-> StoreConnection(FALSE)]
    ELSE [result |-> "returned", columns |-> get_view_columns(get_view(config, view_name)[1], connOk, brk),
          conn |-> get_view_columns_connection(get_view(config, view_name)[1], connOk, brk)]

\* ViewManager._get_view_columns(view_name) for any name: a name that is not
\* stored skips the CREATE and its DESCRIBE raises; describeOk is whether the
\* DESCRIBE of a created view works; the except returns [] for every error
describe_columns(config, view_name, connOk, describeOk, brk) ==
    IF get_view(config, view_name) = <<>> \/ ~describeOk
    THEN [result |-> "returned", columns |-> <<>>, conn |-> StoreConnection(FALSE)]
    ELSE [result |-> "returned", columns |-> get_view_columns(get_view(config, view_name)[1], connOk, brk),
          conn |-> get_view_columns_connection(get_view(config, view_name)[1], connOk, brk)]

\* the connections of get_views_for_agent: one _get_view_columns call per view
RECURSIVE get_views_for_agent_connections(_, _, _)
get_views_for_agent_connections(views, connOk, brk) ==
    IF views = <<>>
    THEN <<>>
    ELSE get_view_columns_connection(Head(views), connOk, brk) \o
         get_views_for_agent_connections(Tail(views), connOk, brk)

\* ViewManager.get_views_for_agent: one entry per stored view, in dict order
get_views_for_agent(views, connOk, brk) ==
    [i \in 1..Len(views) |->
        [name |-> views[i].name,
         description |-> views[i].description,
         tags |-> views[i].tags,
         usage |-> [select_from |-> views[i].name],
         created |-> views[i].created,
         sample_columns |-> get_view_columns(views[i], connOk, brk)]]

\* SQLAgent._format_views_for_prompt: one VIEW block per cached entry
format_views_for_prompt(available_views) ==
    [i \in 1..Len(available_views) |->
        [view |-> available_views[i].name,
         description |-> available_views[i].description,
         usage |-> available_views[i].usage,
         tags |-> available_views[i].tags,
         sample_columns |-> available_views[i].sample_columns]]

\* SQLAgent._create_system_prompt: the AVAILABLE VIEWS section and the fixed text
create_system_prompt(available_views) ==
    [available |-> format_views_for_prompt(available_views), fixed |-> StaticPromptViews]

\* the view-name tokens a prompt contains
PromptTokens(prompt) ==
    {prompt.available[i].view : i \in 1..Len(prompt.available)} \cup prompt.fixed

\* \s of the regular expressions, and what str.strip() removes
IsSpace(c) == c = Newline

RECURSIVE LStrip(_)
LStrip(text) == IF text # <<>> /\ IsSpace(Head(text)) THEN LStrip(Tail(text)) ELSE text

RECURSIVE RStrip(_)
RStrip(text) ==
    IF text # <<>> /\ IsSpace(text[Len(text)]) THEN RStrip(SubSeq(text, 1, Len(text) - 1)) ELSE text

\* str.strip()
Strip(text) == RStrip(LStrip(text))

\* re.sub(r'<fence>sql\s*', '', sql): each fence followed by the tag sql, with the
\* white space after it, is removed, from left to right
RECURSIVE SubSqlFence(_)
SubSqlFence(text) ==
    IF text = <<>> THEN <<>>
    ELSE IF Len(text) >= 2 /\ text[1] = Fence /\ text[2] = "sql"
    THEN SubSqlFence(LStrip(SubSeq(text, 3, Len(text))))
    ELSE <<Head(text)>> \o SubSqlFence(Tail(text))

\* re.sub(r'<fence>\s*', '', sql)
RECURSIVE SubFence(_)
SubFence(text) ==
    IF text = <<>> THEN <<>>
    ELSE IF text[1] = Fence
    THEN SubFence(LStrip(Tail(text)))
    ELSE <<Head(text)>> \o SubFence(Tail(text))

\* SQLAgent.generate_sql on what the API call does: an error of the call is
\* logged and raised again; its text is stripped, cleaned of fences, stripped
generate_sql(out) ==
    IF out.kind = "raises"
    THEN [result |-> "GenerationError", sql |-> <<>>]
    ELSE [result |-> "ok", sql |-> Strip(SubFence(SubSqlFence(Strip(out.text))))]

\* CREATE OR REPLACE VIEW <name> AS <body> in a connection
CreateViewOk(def, brk) == ~Fails(def.sql_query, brk) /\ IsSqlIdentifier(def.name)

\* the first view of the mapping whose CREATE raises, or Len + 1
FirstFailure(views, brk) ==
    IF \E i \in 1..Len(views) : ~CreateViewOk(views[i], brk)
    THEN CHOOSE i \in 1..Len(views) :
            /\ ~CreateViewOk(views[i], brk)
            /\ \A j \in 1..(i - 1) : CreateViewOk(views[j], brk)
    ELSE Len(views) + 1

\* SQLAgent._create_views_in_connection: the statements issued, in order; the try
\* encloses the loop, so the first failure ends it; without a view_manager the
\* AttributeError is caught the same way.  raised: whether the error leaves the method
create_views_in_connection_Propagates(hasManager, views, brk) ==
    IF ~hasManager
    THEN [stmts |-> <<>>, raised |-> TRUE]
    ELSE LET last == IF FirstFailure(views, brk) <= Len(views) THEN FirstFailure(views, brk) ELSE Len(views) IN
         [stmts |-> [i \in 1..last |->
                       [kind |-> "create_view", name |-> views[i].name, ok |-> CreateViewOk(views[i], brk)]],
          raised |-> FirstFailure(views, brk) <= Len(views)]

create_views_in_connection(hasManager, views, brk) ==
    IF ~hasManager
    THEN [stmts |-> <<>>, raised |-> FALSE]
    ELSE LET last == IF FirstFailure(views, brk) <= Len(views) THEN FirstFailure(views, brk) ELSE Len(views) IN
         [stmts |-> [i \in 1..last |->
                       [kind |-> "create_view", name |-> views[i].name, ok |-> CreateViewOk(views[i], brk)]],
          raised |-> FALSE]

\* the names a connection holds as views after the statements
Materialized(stmts) ==
    {stmts[i].name : i \in {j \in 1..Len(stmts) : stmts[j].kind = "create_view" /\ stmts[j].ok}}

\* the limit a LIMIT clause sets, in either spelling
LimitOf(clause) ==
    CHOOSE n \in 1..Len(LimitClauses) : clause \in {LimitClauses[n], LowerLimitClauses[n]}

IsLimitClause(c) == \E n \in 1..Len(LimitClauses) : c \in {LimitClauses[n], LowerLimitClauses[n]}

\* a piece of text that is not white space
IsWord(c) == ~IsSpace(c)

\* a piece that joins the piece before it with nothing between: white space does
\* not, and a LIMIT clause begins with a blank
Joins(c) == IsWord(c) /\ ~IsLimitClause(c)

\* the words of the text from piece i on, after the words acc of the pieces
\* before it: a piece that joins the piece before it goes on with the last word
RECURSIVE WordsFrom(_, _, _)
WordsFrom(text, i, acc) ==
    IF i > Len(text) THEN acc
    ELSE IF IsSpace(text[i]) THEN WordsFrom(text, i + 1, acc)
    ELSE IF i > 1 /\ IsWord(text[i - 1]) /\ Joins(text[i])
    THEN WordsFrom(text, i + 1, [acc EXCEPT ![Len(acc)] = Append(@, text[i])])
    ELSE WordsFrom(text, i + 1, Append(acc, <<text[i]>>))

\* the text as the engine's tokenizer sees it: white space separates and is
\* dropped, and pieces with nothing between them are one word, so that the
\* tags sql and SQL one after the other are the one word sqlSQL
Words(text) == WordsFrom(text, 1, <<>>)

\* the word is a statement on its own
IsStatementWord(word) == word \in {<<Statement>>, <<SelectAll>>}

\* the word is a LIMIT clause on its own
IsLimitWord(word) == Len(word) = 1 /\ IsLimitClause(word[1])

\* the word is an identifier made of language tags: sql, SQL, sqlsql, ...
IsTagWord(word) == \A i \in 1..Len(word) : word[i] \in LanguageTags

\* the words are one statement, and at most one LIMIT clause after it
IsStatementWords(w) ==
    /\ Len(w) \in {1, 2}
    /\ IsStatementWord(w[1])
    /\ Len(w) = 2 => IsLimitWord(w[2])

\* text every SQL engine runs: one statement, and at most one LIMIT clause after it
IsStatementText(text) == IsStatementWords(Words(text))

\* there are no words, or they are a statement, one word of tags and at most
\* one LIMIT clause
IsEngineDependentWords(w) ==
    \/ w = <<>>
    \/ /\ Len(w) \in {2, 3}
       /\ IsStatementWord(w[1])
       /\ IsTagWord(w[2])
       /\ Len(w) = 3 => IsLimitWord(w[3])

\* text an engine runs or rejects by its own grammar and driver: a statement
\* followed by one word of tags, which is then a bare alias of the column or
\* the table (a syntax error where the word is a keyword), and text with no
\* statement in it, for which conn.execute() has nothing to run
IsEngineDependentText(text) == IsEngineDependentWords(Words(text))

\* the rows of the words of a statement that ran
RowCountOfWords(w, tableRows) ==
    IF IsLimitWord(w[Len(w)]) /\ LimitOf(w[Len(w)][1]) < (IF w[1] = <<Statement>> THEN 1 ELSE tableRows)
    THEN LimitOf(w[Len(w)][1])
    ELSE IF w[1] = <<Statement>> THEN 1 ELSE tableRows

\* len(conn.execute(sql).fetchall()) for a statement that ran, on a table of
\* tableRows rows: SELECT 1 gives one row, and a LIMIT clause cuts the result
RowCount(text, tableRows) == RowCountOfWords(Words(text), tableRows)

\* .fetchall() and the loop over conn.description after conn.execute(sql)
\* returned: text with no statement in it leaves no result to fetch or describe
HasResult(sql) == sql.source = "generated" => Words(sql.text) # <<>>

\* conn.execute(sql): SELECT * FROM <view> needs the view in this connection;
\* generated text runs when it is a statement, and text that depends on the
\* engine when this engine is lenient with it
RunSql(sql, stmts, brk, lenient) ==
    IF sql.source = "view" THEN sql.text \in Materialized(stmts)
    ELSE IF sql.source = "generated"
    THEN /\ IsStatementText(sql.text) \/ (lenient /\ IsEngineDependentText(sql.text))
         /\ Words(sql.text) # <<>> => ~Fails(Words(sql.text)[1][1], brk)
    ELSE ~Fails(sql.text, brk)

\* dict(zip(columns, row)) from the i-th pair on: each pair is assigned to the
\* dict built so far, so a name that repeats keeps one entry, with the last value
RECURSIVE DictZipFrom(_, _, _, _)
DictZipFrom(i, acc, columns, row) ==
    IF i > Len(columns) \/ i > Len(row)
    THEN acc
    ELSE DictZipFrom(i + 1, DictSet(acc, columns[i], [name |-> columns[i], value |-> row[i]]), columns, row)

\* dict(zip(columns, row))
DictZip(columns, row) == DictZipFrom(1, <<>>, columns, row)

\* execute_query from fetchall() on: result_dicts, one dict per row in order
result_dicts(columns, rows) == [i \in 1..Len(rows) |-> DictZip(columns, rows[i])]

\* the end of the try block of execute_query: the caller's SQL after the
\* statements stmts, whether conn.execute(sql) ran it, and its rows
execute_query_sql(stmts, sql, ran) ==
    [stmts |-> Append(stmts, [kind |-> "sql", name |-> sql.text, ok |-> ran]),
     result |-> IF ran /\ HasResult(sql) THEN "rows" ELSE "QueryExecutionError",
     step |-> IF ~ran THEN "sql" ELSE IF HasResult(sql) THEN "ok" ELSE "fetch"]

\* SQLAgent.execute_query
\* the try block of execute_query, on the connection duckdb.connect() returned:
\* httpfs and the S3 settings, the views, then the caller's SQL and its rows
execute_query_try(hasManager, views, sql, connOk, brk, lenient) ==
    IF ~connOk
    THEN [stmts |-> <<>>, result |-> "QueryExecutionError", step |-> "connect"]
    ELSE LET m == create_views_in_connection(hasManager, views, brk) IN
         IF m.raised
         THEN [stmts |-> m.stmts, result |-> "QueryExecutionError", step |-> "views"]
         ELSE execute_query_sql(m.stmts, sql, RunSql(sql, m.stmts, brk, lenient))

\* SQLAgent.execute_query: connect, the try block, and the finally that closes
execute_query(hasManager, views, sql, connOk, brk, lenient) ==
    LET r == execute_query_try(hasManager, views, sql, connOk, brk, lenient) IN
    [stmts |-> r.stmts, result |-> r.result, step |-> r.step, conn |-> Finally(<<"open">>)]

\* the text generate_sql returned, as ask hands it to execute_query
GeneratedSql(text) == [source |-> "generated", text |-> text]

\* what an execute_query did, in order: the connection, each statement, the close
ExecuteEvents(r) ==
    SubSeq(r.conn, 1, 1) \o [i \in 1..Len(r.stmts) |-> "execute"] \o SubSeq(r.conn, 2, Len(r.conn))

ask_ExecutesRaw(hasManager, views, out, connOk, brk, lenient) ==
    LET g == generate_sql(out) IN
    IF g.result # "ok"
    THEN [events |-> <<"generate">>, text |-> g.sql, stmts |-> <<>>, conn |-> <<>>,
          result |-> g.result, step |-> "generate"]
    ELSE LET r == execute_query(hasManager, views, GeneratedSql(out.text), connOk, brk, lenient) IN
         [events |-> <<"generate">> \o ExecuteEvents(r), text |-> g.sql, stmts |-> r.stmts, conn |-> r.conn,
          result |-> r.result, step |-> r.step]

\* SQLAgent.ask: generate_sql, then execute_query on what it returned; an error
\* of either is logged and raised again
ask(hasManager, views, out, connOk, brk, lenient) ==
    LET g == generate_sql(out) IN
    IF g.result # "ok"
    THEN [events |-> <<"generate">>, text |-> g.sql, stmts |-> <<>>, conn |-> <<>>,
          result |-> g.result, step |-> "generate"]
    ELSE LET r == execute_query(hasManager, views, GeneratedSql(g.sql), connOk, brk, lenient) IN
         [events |-> <<"generate">> \o ExecuteEvents(r), text |-> g.sql, stmts |-> r.stmts, conn |-> r.conn,
          result |-> r.result, step |-> r.step]

execute_view_NoLookup(config, view_name, limit, connOk, brk, viewRows) ==
    [result |-> "error", status |-> 200, conn |-> StoreConnection(FALSE), row_count |-> 0]

\* GET /views/{view_name}/execute: 404 for a name the ViewManager does not hold;
\* otherwise the view is created in a fresh connection and selected from, and
\* a failure is answered with a response that carries the error
\* limit is Optional[int]: <<>> models None; with a limit the query is
\* SELECT * FROM <view> LIMIT <limit>; viewRows is how many rows the view has
execute_view(config, view_name, limit, connOk, brk, viewRows) ==
    IF get_view(config, view_name) = <<>>
    THEN [result |-> "404", status |-> 404, conn |-> <<>>, row_count |-> 0]
    ELSE LET ok == connOk /\ CreateViewOk(get_view(config, view_name)[1], brk) IN
         [result |-> IF ok THEN "rows" ELSE "error", status |-> 200, conn |-> StoreConnection(ok),
          row_count |-> IF ~ok THEN 0
                        ELSE IF limit # <<>> /\ limit[1] < viewRows THEN limit[1] ELSE viewRows]

\* GET /views/{view_name}: the stored definition, or 404; no engine call
get_view_details(config, view_name) ==
    IF get_view(config, view_name) = <<>>
    THEN [result |-> "404", status |-> 404, conn |-> <<>>]
    ELSE [result |-> "view", status |-> 200, conn |-> <<>>]

\* str.upper() of a statement text, token by token
Upper(text) ==
    [i \in 1..Len(text) |->
        IF \E n \in 1..Len(LimitClauses) : text[i] = LowerLimitClauses[n]
        THEN LimitClauses[CHOOSE n \in 1..Len(LimitClauses) : text[i] = LowerLimitClauses[n]]
        ELSE IF text[i] = SelectAll THEN "SELECT * FROM CONVERSATION_ENTRY"
        ELSE IF text[i] = "sql" THEN "SQL"
        ELSE text[i]]

\* "LIMIT" in text
ContainsLimit(text) ==
    \E i \in 1..Len(text), n \in 1..Len(LimitClauses) : text[i] = LimitClauses[n]

NotAvailable_Served ==
    [status |-> 200, result |-> "rows", error |-> FALSE, row_count |-> 0, shown |-> <<>>, text |-> <<>>,
     events |-> <<"generate">>, conn |-> <<"open", "close">>]

\* the answer of a /query route when the module has no agent
NotAvailable ==
    [status |-> 503, result |-> "", error |-> TRUE, row_count |-> 0, shown |-> <<>>, text |-> <<>>,
     events |-> <<>>, conn |-> <<>>]

\* POST /query (ai_query): ask, then in debug mode a second generate_sql for
\* the text to show; everything is inside one try, whose except answers with
\* an error response.  out is what the generator answers to the call of ask,
\* out2 what it answers to the debug call
ai_query(agentState, views, out, out2, debug, connOk, brk, lenient, tableRows) ==
    IF agentState = "none"
    THEN NotAvailable
    ELSE LET r == ask(TRUE, views, out, connOk, brk, lenient) IN
         IF r.result # "rows"
         THEN [status |-> 200, result |-> r.result, error |-> TRUE, row_count |-> 0, shown |-> <<>>, text |-> r.text,
               events |-> r.events, conn |-> r.conn]
         ELSE IF ~debug
         THEN [status |-> 200, result |-> r.result, error |-> FALSE, row_count |-> RowCount(r.text, tableRows), shown |-> <<>>,
               text |-> r.text, events |-> r.events, conn |-> r.conn]
         ELSE LET g == generate_sql(out2) IN
              IF g.result # "ok"
              THEN [status |-> 200, result |-> r.result, error |-> TRUE, row_count |-> 0, shown |-> <<>>, text |-> r.text,
                    events |-> Append(r.events, "generate"), conn |-> r.conn]
              ELSE [status |-> 200, result |-> r.result, error |-> FALSE, row_count |-> RowCount(r.text, tableRows),
                    shown |-> <<g.sql>>, text |-> r.text,
                    events |-> Append(r.events, "generate"), conn |-> r.conn]

\* sql_query += f" LIMIT {limit}" unless the limit is None or the upper-cased
\* text has LIMIT in it
AddLimit(sql_query, limit) ==
    IF limit # <<>> /\ ~ContainsLimit(Upper(sql_query))
    THEN Append(sql_query, LimitClauses[limit[1]])
    ELSE sql_query

\* GET /query (ai_query_get): generate_sql, the limit, execute_query; the
\* except answers 500
ai_query_get(agentState, views, out, debug, limit, connOk, brk, lenient, tableRows) ==
    IF agentState = "none"
    THEN NotAvailable
    ELSE LET g == generate_sql(out) IN
         IF g.result # "ok"
         THEN [status |-> 500, result |-> g.result, error |-> TRUE, row_count |-> 0, shown |-> <<>>, text |-> <<>>,
               events |-> <<"generate">>, conn |-> <<>>]
         ELSE LET sql_query == AddLimit(g.sql, limit)
                  r == execute_query(TRUE, views, GeneratedSql(sql_query), connOk, brk, lenient)
              IN  IF r.result # "rows"
                  THEN [status |-> 500, result |-> r.result, error |-> TRUE, row_count |-> 0, shown |-> <<>>, text |-> sql_query,
                        events |-> <<"generate">> \o ExecuteEvents(r), conn |-> r.conn]
                  ELSE [status |-> 200, result |-> r.result, error |-> FALSE, row_count |-> RowCount(sql_query, tableRows),
                        shown |-> IF debug THEN <<sql_query>> ELSE <<>>, text |-> sql_query,
                        events |-> <<"generate">> \o ExecuteEvents(r), conn |-> r.conn]

\* SQLAgent.generate_sql of the script src/sql_agent.py, the class the
\* front-ends import: the steps of the package's generate_sql
script_generate_sql(out) ==
    IF out.kind = "raises"
    THEN [result |-> "GenerationError", sql |-> <<>>]
    ELSE [result |-> "ok", sql |-> Strip(SubFence(SubSqlFence(Strip(out.text))))]

\* SQLAgent.execute_query of src/sql_agent.py: connect, httpfs and the S3
\* settings, the caller's SQL and its rows, and the finally that closes; this
\* class has no ViewManager and issues no CREATE VIEW
script_execute_query(sql, connOk, brk, lenient) ==
    LET ran == connOk /\ RunSql(sql, <<>>, brk, lenient)
        ok == ran /\ HasResult(sql)
    IN  [stmts |-> IF connOk THEN <<[kind |-> "sql", name |-> sql.text, ok |-> ran]>> ELSE <<>>,
         result |-> IF ok THEN "rows" ELSE "QueryExecutionError",
         step |-> IF ~connOk THEN "connect" ELSE IF ok THEN "ok" ELSE IF ran THEN "fetch" ELSE "sql",
         conn |-> Finally(<<"open">>)]

\* SQLAgent.ask of src/sql_agent.py
script_ask(out, connOk, brk, lenient) ==
    LET g == script_generate_sql(out) IN
    IF g.result # "ok"
    THEN [events |-> <<"generate">>, text |-> g.sql, stmts |-> <<>>, conn |-> <<>>,
          result |-> g.result, step |-> "generate"]
    ELSE LET r == script_execute_query(GeneratedSql(g.sql), connOk, brk, lenient) IN
         [events |-> <<"generate">> \o ExecuteEvents(r), text |-> g.sql, stmts |-> r.stmts, conn |-> r.conn,
          result |-> r.result, step |-> r.step]

\* initialize_agent of a front-end: the module's agent afterwards; without a
\* key, or when SQLAgent() raises for the provider's key, it is left as it was
initialize_agent(agentState, keyOk) == IF keyOk THEN "ready" ELSE agentState

\* the answer of a front-end that did not get as far as its agent
FrontAnswer(result, error, agentState) ==
    [status |-> 200, result |-> result, error |-> error, row_count |-> 0, shown |-> <<>>, text |-> <<>>,
     events |-> <<>>, conn |-> <<>>, agent |-> agentState]

\* process_query of the chat front-end: the agent is built when the module has
\* none, and the failure to build it is the answer; a question of white space
\* is answered with a request for one; then agent.ask, the rows as a table, and
\* with DEBUG_MODE the text of a second generate_sql, whose error is passed
\* over; no rows give the "No results" message before that.
\* status 200 stands for the returned text, error for the error text
process_query(agentState, question, out, out2, debug, keyOk, connOk, brk, lenient, tableRows) ==
    IF agentState = "none" /\ initialize_agent(agentState, keyOk) = "none"
    THEN FrontAnswer("ConfigurationError", TRUE, "none")
    ELSE IF Strip(question) = <<>>
    THEN FrontAnswer("no question", FALSE, "ready")
    ELSE LET r == script_ask(out, connOk, brk, lenient) IN
         IF r.result # "rows"
         THEN [status |-> 200, result |-> r.result, error |-> TRUE, row_count |-> 0, shown |-> <<>>, text |-> r.text,
               events |-> r.events, conn |-> r.conn, agent |-> "ready"]
         ELSE IF RowCount(r.text, tableRows) = 0 \/ ~debug
         THEN [status |-> 200, result |-> r.result, error |-> FALSE, row_count |-> RowCount(r.text, tableRows),
               shown |-> <<>>, text |-> r.text, events |-> r.events, conn |-> r.conn, agent |-> "ready"]
         ELSE LET g == script_generate_sql(out2) IN
              [status |-> 200, result |-> r.result, error |-> FALSE, row_count |-> RowCount(r.text, tableRows),
               shown |-> IF g.result = "ok" THEN <<g.sql>> ELSE <<>>, text |-> r.text,
               events |-> Append(r.events, "generate"), conn |-> r.conn, agent |-> "ready"]

\* POST /query of the Flask front-end (query): the stripped question is tested
\* before the agent is built; then agent.ask, the rows and their count, and
\* with DEBUG_MODE the text of a second generate_sql, whose error is passed
\* over, also when there are no rows; every error is answered as {'error': ...}
web_query(agentState, question, out, out2, debug, keyOk, connOk, brk, lenient, tableRows) ==
    IF Strip(question) = <<>>
    THEN FrontAnswer("no question", TRUE, agentState)
    ELSE IF agentState = "none" /\ initialize_agent(agentState, keyOk) = "none"
    THEN FrontAnswer("ConfigurationError", TRUE, "none")
    ELSE LET r == script_ask(out, connOk, brk, lenient) IN
         IF r.result # "rows"
         THEN [status |-> 200, result |-> r.result, error |-> TRUE, row_count |-> 0, shown |-> <<>>, text |-> r.text,
               events |-> r.events, conn |-> r.conn, agent |-> "ready"]
         ELSE IF ~debug
         THEN [status |-> 200, result |-> r.result, error |-> FALSE, row_count |-> RowCount(r.text, tableRows),
               shown |-> <<>>, text |-> r.text, events |-> r.events, conn |-> r.conn, agent |-> "ready"]
         ELSE LET g == script_generate_sql(out2) IN
              [status |-> 200, result |-> r.result, error |-> FALSE, row_count |-> RowCount(r.text, tableRows),
               shown |-> IF g.result = "ok" THEN <<g.sql>> ELSE <<>>, text |-> r.text,
               events |-> Append(r.events, "generate"), conn |-> r.conn, agent |-> "ready"]

-----------------------------------------------------------------------------
(* The record of the last call *)

NoInput == [description |-> "", sql_query |-> "", tags |-> <<>>]

NoSql == [source |-> "", text |-> ""]

NoCall ==
    [op |-> "none", store |-> "", name |-> "", input |-> NoInput, replace |-> FALSE,
     existed |-> FALSE, result |-> "", step |-> "", sql |-> NoSql, stmts |-> <<>>, tokens |-> {},
     conn |-> <<>>, failed |-> {}, faults |-> {}, text |-> <<>>, events |-> <<>>,
     status |-> 0, error |-> FALSE, row_count |-> 0, shown |-> <<>>, limit |-> <<>>, debug |-> FALSE,
     api_key |-> TRUE, out |-> <<>>, columns |-> <<>>, rows |-> <<>>, question |-> <<>>]

NoAgent == [state |-> "none", views |-> <<>>, available_views |-> <<>>]

\* a process that has not built its ViewManager yet; default_config is the local
\* of _load_views_config while the constructor is writing the new file
NoProc ==
    [pc |-> "new", views |-> <<>>, default_config |-> <<>>, name |-> "", input |-> NoInput, result |-> "",
     wrote |-> 0]

\* the SQL a caller hands to execute_query
CallerSql ==
    {[source |-> "view", text |-> n] : n \in ViewNames} \cup
    {[source |-> "raw", text |-> q] : q \in {ActionsSql, NonexistentSql}}

-----------------------------------------------------------------------------
(* Actions *)

Init ==
    /\ file = <<>>
    /\ stores = [s \in StoreIds |-> <<>>]
    /\ agent = NoAgent
    /\ broken = {}
    /\ clock = 0
    /\ lastMutation = [n \in ViewNames |-> "none"]
    /\ saveFailures = 0
    /\ procs = [p \in Racers |-> NoProc]
    /\ llm = [kind |-> "raises", text |-> <<>>]
    /\ front = [f \in FrontEnds |-> "none"]
    /\ ret = NoCall

\* an agent built by SQLAgent() on a new View Store, and any answer of the API
InitGen ==
    /\ file = <<DefaultConfig(0)>>
    /\ stores = [s \in StoreIds |-> <<>>]
    /\ agent = [state |-> "ready", views |-> <<>>, available_views |-> <<>>]
    /\ broken = {}
    /\ clock = 0
    /\ lastMutation = [n \in ViewNames |-> "none"]
    /\ saveFailures = 0
    /\ procs = [p \in Racers |-> NoProc]
    /\ llm \in GeneratorOutputs
    /\ front = [f \in FrontEnds |-> "none"]
    /\ ret = NoCall

\* datetime.now() advances
Tick ==
    /\ clock < MaxClock
    /\ clock' = clock + 1
    /\ ret' = [NoCall EXCEPT !.op = "tick"]
    /\ UNCHANGED <<file, stores, agent, broken, lastMutation, saveFailures, procs, llm, front>>

\* the data lake changes: a body that ran stops running, or runs again
DataLakeChange(q) ==
    /\ broken' = IF q \in broken THEN broken \ {q} ELSE broken \cup {q}
    /\ ret' = [NoCall EXCEPT !.op = "datalake"]
    /\ UNCHANGED <<file, stores, agent, clock, lastMutation, saveFailures, procs, llm, front>>

load_views_config_Rewrites(f, saveOk, now) ==
    IF f = <<>>
    THEN [loaded |-> <<DefaultConfig(now)>>, file |-> <<DefaultConfig(now)>>, result |-> "ok"]
    ELSE IF ~IsParseable(f)
    THEN [loaded |-> <<FallbackConfig(now)>>, file |-> f, result |-> "ok"]
    ELSE [loaded |-> <<Stamp(f[1], now)>>, file |-> <<Stamp(f[1], now)>>, result |-> "ok"]

\* _load_views_config: the mapping returned and the file afterwards; on an absent
\* file the default config is written first, and a failed write raises; a file
\* that does not parse is left as it is and nothing is raised
load_views_config(f, saveOk, now) ==
    IF f = <<>>
    THEN IF saveOk
         THEN [loaded |-> <<DefaultConfig(now)>>, file |-> <<DefaultConfig(now)>>, result |-> "ok"]
         ELSE [loaded |-> <<>>, file |-> f, result |-> "SaveError"]
    ELSE IF ~IsParseable(f)
    THEN [loaded |-> <<FallbackConfig(now)>>, file |-> f, result |-> "ok"]
    ELSE [loaded |-> f, file |-> f, result |-> "ok"]

\* ViewManager(): __init__; disk names the outcome of the bootstrap write
Construct(s, disk) ==
    /\ disk # "ok" => file = <<>> /\ saveFailures < MaxSaveFailures
    /\ LET r == load_views_config(file, disk = "ok", clock) IN
         /\ file' = FileAfterSave(r.file, <<>>, FALSE, disk)
         /\ stores' = [stores EXCEPT ![s] = IF r.result = "ok" THEN r.loaded ELSE @]
         /\ saveFailures' = IF r.result = "SaveError" THEN saveFailures + 1 ELSE saveFailures
         /\ ret' = [NoCall EXCEPT !.op = "construct", !.store = s, !.result = r.result]
    /\ UNCHANGED <<agent, broken, clock, procs, llm, front>>

\* ViewManager.create_view; env names the step the environment fails, if any
Create(s, view_name, input, replace, env) ==
    /\ stores[s] # <<>>
    /\ \E r \in {create_view(stores[s][1], view_name, input, replace, env # "connect", env \notin {"save", "dump"},
                            broken, clock)} :
         /\ r.step \in {"ok", "duplicate", "probe", "create_view"} => env = "ok"
         /\ r.step = "connect" => env = "connect"
         /\ r.step = "save" => env \in {"save", "dump"}
         /\ env \in {"save", "dump"} => saveFailures < MaxSaveFailures
         /\ saveFailures' = IF env \in {"save", "dump"} THEN saveFailures + 1 ELSE saveFailures
         /\ stores' = [stores EXCEPT ![s] = <<r.config>>]
         /\ file' = FileAfterSave(file, r.config, r.written, env)
         /\ ret' = [NoCall EXCEPT !.op = "create", !.store = s, !.name = view_name,
                                  !.input = IF r.result = "True" THEN input ELSE NoInput,
                                  !.replace = replace, !.existed = Has(stores[s][1].views, view_name),
                                  !.result = r.result, !.step = r.step, !.conn = r.conn]
    /\ UNCHANGED <<agent, broken, clock, procs, llm, front>>

\* ViewManager.delete_view; env names the step the environment fails, if any
Delete(s, view_name, env) ==
    /\ stores[s] # <<>>
    /\ \E r \in {delete_view(stores[s][1], view_name, env # "connect", env # "drop_view",
                            env \notin {"save", "dump"}, clock)} :
         /\ r.step \in {"ok", "absent"} => env = "ok"
         /\ r.step \in {"connect", "drop_view"} => env = r.step
         /\ r.step = "save" => env \in {"save", "dump"}
         /\ env \in {"save", "dump"} => saveFailures < MaxSaveFailures
         /\ saveFailures' = IF env \in {"save", "dump"} THEN saveFailures + 1 ELSE saveFailures
         /\ stores' = [stores EXCEPT ![s] = <<r.config>>]
         /\ file' = FileAfterSave(file, r.config, r.written, env)
         /\ ret' = [NoCall EXCEPT !.op = "delete", !.store = s, !.name = view_name,
                                  !.existed = Has(stores[s][1].views, view_name),
                                  !.result = r.result, !.step = r.step, !.conn = r.conn]
    /\ UNCHANGED <<agent, broken, clock, procs, llm, front>>

\* the data lake path of every default body goes away, or comes back
LakeOutage ==
    /\ broken' = IF DefaultBodies \subseteq broken THEN broken \ DefaultBodies ELSE broken \cup DefaultBodies
    /\ ret' = [NoCall EXCEPT !.op = "datalake"]
    /\ UNCHANGED <<file, stores, agent, clock, lastMutation, saveFailures, procs, llm, front>>

\* ViewManager.create_default_views; envs names, for each default view, the step
\* of its create_view the environment fails, if any.  failed: the views whose
\* create_view raised; faults: those where an engine call or the write failed
CreateDefaults(s, envs) ==
    /\ stores[s] # <<>>
    /\ LET r == create_default_views(stores[s][1], file, envs, broken, clock)
           saves == Cardinality({i \in 1..Len(r.steps) : r.steps[i] = "save"})
       IN
         /\ \A i \in 1..Len(DefaultViews) : envs[i] # "ok" => r.steps[i] = envs[i]
         /\ saveFailures + saves <= MaxSaveFailures
         /\ saveFailures' = saveFailures + saves
         /\ stores' = [stores EXCEPT ![s] = <<r.config>>]
         /\ file' = r.file
         /\ ret' = [NoCall EXCEPT !.op = "create_defaults", !.store = s,
                                  !.existed = DefaultNames \subseteq Keys(stores[s][1].views),
                                  !.result = r.result, !.conn = r.conn,
                                  !.failed = {DefaultViews[i].name : i \in {j \in 1..Len(r.steps) : r.steps[j] # "ok"}},
                                  !.faults = {DefaultViews[i].name : i \in {j \in 1..Len(r.steps) :
                                                 r.steps[j] \in {"connect", "probe", "create_view", "save"}}}]
    /\ UNCHANGED <<agent, broken, clock, procs, llm, front>>

\* no process has started its create_view yet
RaceNotBegun == \A p \in Racers : procs[p].pc = "new"

\* process p: ViewManager() down to the return of __init__ when the file exists,
\* and down to the call of _save_views_config(default_config) when exists()
\* answered False: default_config is built, nothing is written yet
ProcConstruct(p) ==
    /\ procs[p].pc = "new"
    /\ procs' = IF file = <<>>
                THEN [procs EXCEPT ![p].pc = "absent", ![p].default_config = <<FallbackConfig(clock)>>]
                ELSE [procs EXCEPT ![p].pc = "loaded", ![p].views = load_views_config(file, TRUE, clock).loaded]
    /\ ret' = [NoCall EXCEPT !.op = "proc_construct", !.store = p]
    /\ UNCHANGED <<file, stores, agent, broken, clock, lastMutation, saveFailures, llm, front>>

\* process p, in the constructor: _save_views_config(default_config) reads
\* last_updated from the clock and open(self.views_config_path, 'w') creates the
\* file, or truncates the one another process wrote since exists()
ProcBootOpen(p) ==
    /\ procs[p].pc = "absent"
    /\ procs' = [procs EXCEPT ![p].pc = "creating",
                              ![p].default_config = <<Stamp(procs[p].default_config[1], clock)>>]
    /\ file' = <<Unreadable(0)>>
    /\ ret' = [NoCall EXCEPT !.op = "proc_boot_open", !.store = p]
    /\ UNCHANGED <<stores, agent, broken, clock, lastMutation, saveFailures, llm, front>>

\* process p, in the constructor: json.dump and the end of the with block, the
\* return of default_config and its assignment to self.views
ProcBootDump(p) ==
    /\ procs[p].pc = "creating"
    /\ procs' = [procs EXCEPT ![p].pc = "loaded", ![p].views = procs[p].default_config,
                              ![p].default_config = <<>>]
    /\ file' = Overlay(procs[p].default_config[1], file)
    /\ ret' = [NoCall EXCEPT !.op = "proc_boot_dump", !.store = p]
    /\ UNCHANGED <<stores, agent, broken, clock, lastMutation, saveFailures, llm, front>>

\* process p: create_view(view_name, ..., replace=True) down to the assignment
\* self.views["views"][view_name] = view_definition; nothing shared is touched
\* and last_updated is as it was loaded
ProcCreateView(p, view_name, input) ==
    /\ procs[p].pc = "loaded"
    /\ LET r == create_view(procs[p].views[1], view_name, input, TRUE, TRUE, TRUE, broken, clock) IN
         procs' = [procs EXCEPT ![p].pc = IF r.result = "True" THEN "assigned" ELSE "done",
                                ![p].views = IF r.result = "True"
                                             THEN <<[procs[p].views[1] EXCEPT !.views = r.config.views]>>
                                             ELSE @,
                                ![p].name = view_name,
                                ![p].input = IF r.result = "True" THEN input ELSE NoInput,
                                ![p].result = IF r.result = "True" THEN "" ELSE r.result]
    /\ ret' = [NoCall EXCEPT !.op = "proc_create", !.store = p]
    /\ UNCHANGED <<file, stores, agent, broken, clock, lastMutation, saveFailures, llm, front>>

\* process p: _save_views_config, last_updated is read from the clock and
\* open(self.views_config_path, 'w') truncates
ProcOpenFile(p) ==
    /\ procs[p].pc = "assigned"
    /\ procs' = [procs EXCEPT ![p].pc = "opened", ![p].views = <<Stamp(procs[p].views[1], clock)>>]
    /\ file' = <<Unreadable(0)>>
    /\ ret' = [NoCall EXCEPT !.op = "proc_open", !.store = p]
    /\ UNCHANGED <<stores, agent, broken, clock, lastMutation, saveFailures, llm, front>>

\* process p: json.dump and the end of the with block, then return True;
\* wrote is the place of this write among the processes' writes
ProcDumpFile(p) ==
    /\ procs[p].pc = "opened"
    /\ procs' = [procs EXCEPT ![p].pc = "done", ![p].result = "True",
                              ![p].wrote = 1 + Cardinality({q \in Racers : procs[q].wrote > 0})]
    /\ file' = Overlay(procs[p].views[1], file)
    /\ ret' = [NoCall EXCEPT !.op = "proc_dump", !.store = p]
    /\ UNCHANGED <<stores, agent, broken, clock, lastMutation, saveFailures, llm, front>>

\* instance p: a whole ViewManager() call, which writes the container when the
\* file is absent
InstanceConstruct(p) ==
    /\ procs[p].pc = "new"
    /\ LET r == load_views_config(file, TRUE, clock) IN
         /\ procs' = [procs EXCEPT ![p].pc = "loaded", ![p].views = r.loaded]
         /\ file' = r.file
    /\ ret' = [NoCall EXCEPT !.op = "instance_construct", !.store = p, !.result = "ok"]
    /\ UNCHANGED <<stores, agent, broken, clock, lastMutation, saveFailures, llm, front>>

\* instance p, a ViewManager built on the file earlier: a whole create_view call,
\* from its own self.views to the file
InstanceCreate(p, view_name, input, replace) ==
    /\ procs[p].pc = "loaded"
    /\ \E r \in {create_view(procs[p].views[1], view_name, input, replace, TRUE, TRUE, broken, clock)} :
         /\ procs' = [procs EXCEPT ![p].views = <<r.config>>]
         /\ file' = FileAfterSave(file, r.config, r.written, "ok")
         /\ ret' = [NoCall EXCEPT !.op = "create", !.store = p, !.name = view_name,
                                  !.input = IF r.result = "True" THEN input ELSE NoInput,
                                  !.replace = replace, !.existed = Has(procs[p].views[1].views, view_name),
                                  !.result = r.result, !.step = r.step, !.conn = r.conn]
    /\ UNCHANGED <<stores, agent, broken, clock, saveFailures, llm, front>>

\* instance p: a whole delete_view call
InstanceDelete(p, view_name) ==
    /\ procs[p].pc = "loaded"
    /\ \E r \in {delete_view(procs[p].views[1], view_name, TRUE, TRUE, TRUE, clock)} :
         /\ procs' = [procs EXCEPT ![p].views = <<r.config>>]
         /\ file' = FileAfterSave(file, r.config, r.written, "ok")
         /\ ret' = [NoCall EXCEPT !.op = "delete", !.store = p, !.name = view_name,
                                  !.existed = Has(procs[p].views[1].views, view_name),
                                  !.result = r.result, !.step = r.step, !.conn = r.conn]
    /\ UNCHANGED <<stores, agent, broken, clock, saveFailures, llm, front>>

\* the history of successful mutations, read off the call just made
Track ==
    lastMutation' =
        IF ret'.op \in {"create", "delete"} /\ ret'.result = "True" /\ ret'.name \in ViewNames
        THEN [lastMutation EXCEPT ![ret'.name] = ret'.op]
        ELSE lastMutation

\* SQLAgent(): __init__ builds its own ViewManager, caches get_views_for_agent()
\* and then initialises the AI client, which raises without an API key
AgentInit(connOk, keyOk) ==
    /\ LET r == load_views_config(file, TRUE, clock) IN
         /\ file' = r.file
         /\ agent' = IF keyOk
                     THEN [state |-> "ready", views |-> r.loaded[1].views,
                           available_views |-> get_views_for_agent(r.loaded[1].views, connOk, broken)]
                     ELSE agent
         /\ ret' = [NoCall EXCEPT !.op = "agent_init", !.api_key = keyOk,
                                  !.result = IF keyOk THEN "ok" ELSE "ConfigurationError",
                                  !.conn = get_views_for_agent_connections(r.loaded[1].views, connOk, broken)]
    /\ UNCHANGED <<stores, broken, clock, lastMutation, saveFailures, procs, llm, front>>

\* SQLAgent.__new__(SQLAgent) with table_schema only, as the tests build it
AgentBare ==
    /\ agent' = [state |-> "bare", views |-> <<>>, available_views |-> <<>>]
    /\ ret' = [NoCall EXCEPT !.op = "agent_bare", !.result = "ok"]
    /\ UNCHANGED <<file, stores, broken, clock, lastMutation, saveFailures, procs, llm, front>>

\* SQLAgent.execute_query
Execute(sql, connOk, lenient) ==
    /\ agent.state # "none"
    /\ LET r == execute_query(agent.state = "ready", agent.views, sql, connOk, broken, lenient) IN
         ret' = [NoCall EXCEPT !.op = "execute", !.sql = sql, !.stmts = r.stmts,
                               !.result = r.result, !.step = r.step, !.conn = r.conn]
    /\ UNCHANGED <<file, stores, agent, broken, clock, lastMutation, saveFailures, procs, llm, front>>

\* SQLAgent.execute_query on a statement that ran: the engine's result set
\* res is fetched and returned as a list of dicts
ExecuteFetch(res) ==
    /\ ret' = [NoCall EXCEPT !.op = "execute", !.result = "rows", !.step = "ok", !.conn = Finally(<<"open">>),
                             !.columns = res.columns, !.rows = res.rows,
                             !.out = result_dicts(res.columns, res.rows)]
    /\ UNCHANGED <<file, stores, agent, broken, clock, lastMutation, saveFailures, procs, llm, front>>

\* the text-generation API gets into the state of answering out
LlmAnswers(out) ==
    /\ llm' = out
    /\ ret' = [NoCall EXCEPT !.op = "llm"]
    /\ UNCHANGED <<file, stores, agent, broken, clock, lastMutation, saveFailures, procs, front>>

\* SQLAgent.generate_sql
Generate ==
    /\ agent.state = "ready"
    /\ LET g == generate_sql(llm) IN
         ret' = [NoCall EXCEPT !.op = "generate", !.result = g.result, !.text = g.sql]
    /\ UNCHANGED <<file, stores, agent, broken, clock, lastMutation, saveFailures, procs, llm, front>>

\* SQLAgent.ask
Ask(connOk, lenient) ==
    /\ agent.state = "ready"
    /\ LET r == ask(TRUE, agent.views, llm, connOk, broken, lenient) IN
         ret' = [NoCall EXCEPT !.op = "ask", !.result = r.result, !.step = r.step, !.text = r.text,
                               !.stmts = r.stmts, !.conn = r.conn, !.events = r.events]
    /\ UNCHANGED <<file, stores, agent, broken, clock, lastMutation, saveFailures, procs, llm, front>>

\* the API route execute_view on the ViewManager the API module built
ExecuteView(s, view_name, limit, connOk, viewRows) ==
    /\ stores[s] # <<>>
    /\ LET r == execute_view(stores[s][1], view_name, limit, connOk, broken, viewRows) IN
         ret' = [NoCall EXCEPT !.op = "execute_view", !.store = s, !.name = view_name, !.limit = limit,
                               !.existed = Has(stores[s][1].views, view_name),
                               !.result = r.result, !.conn = r.conn, !.status = r.status,
                               !.row_count = r.row_count]
    /\ UNCHANGED <<file, stores, agent, broken, clock, lastMutation, saveFailures, procs, llm, front>>

\* the API route get_view_details on the ViewManager the API module built
GetViewDetails(s, view_name) ==
    /\ stores[s] # <<>>
    /\ LET r == get_view_details(stores[s][1], view_name) IN
         ret' = [NoCall EXCEPT !.op = "get_view_details", !.store = s, !.name = view_name,
                               !.existed = Has(stores[s][1].views, view_name),
                               !.result = r.result, !.conn = r.conn, !.status = r.status]
    /\ UNCHANGED <<file, stores, agent, broken, clock, lastMutation, saveFailures, procs, llm, front>>

\* ViewManager.get_view
GetView(s, view_name) ==
    /\ stores[s] # <<>>
    /\ ret' = [NoCall EXCEPT !.op = "get_view", !.store = s, !.name = view_name,
                             !.existed = Has(stores[s][1].views, view_name),
                             !.result = "returned", !.out = get_view(stores[s][1], view_name)]
    /\ UNCHANGED <<file, stores, agent, broken, clock, lastMutation, saveFailures, procs, llm, front>>

ListViews_Saves(s) ==
    /\ stores[s] # <<>>
    /\ ret' = [NoCall EXCEPT !.op = "list_views", !.store = s, !.result = "returned",
                             !.out = list_views(stores[s][1])]
    /\ stores' = [stores EXCEPT ![s] = <<Stamp(stores[s][1], clock)>>]
    /\ file' = <<Stamp(stores[s][1], clock)>>
    /\ UNCHANGED <<agent, broken, clock, lastMutation, saveFailures, procs, llm, front>>

\* ViewManager.list_views
ListViews(s) ==
    /\ stores[s] # <<>>
    /\ ret' = [NoCall EXCEPT !.op = "list_views", !.store = s, !.result = "returned",
                             !.out = list_views(stores[s][1])]
    /\ UNCHANGED <<file, stores, agent, broken, clock, lastMutation, saveFailures, procs, llm, front>>

\* ViewManager._get_view_columns; faults names what the environment fails
DescribeColumns(s, view_name, connOk, describeOk) ==
    /\ stores[s] # <<>>
    /\ LET r == describe_columns(stores[s][1], view_name, connOk, describeOk, broken) IN
         ret' = [NoCall EXCEPT !.op = "describe_columns", !.store = s, !.name = view_name,
                               !.existed = Has(stores[s][1].views, view_name),
                               !.faults = {f \in {"connect", "describe"} :
                                             (f = "connect" /\ ~connOk) \/ (f = "describe" /\ ~describeOk)},
                               !.result = r.result, !.out = r.columns, !.conn = r.conn]
    /\ UNCHANGED <<file, stores, agent, broken, clock, lastMutation, saveFailures, procs, llm, front>>

\* ViewManager.get_views_for_agent, as GET /views calls it
ViewsForAgent(s, connOk) ==
    /\ stores[s] # <<>>
    /\ ret' = [NoCall EXCEPT !.op = "get_views_for_agent", !.store = s, !.result = "returned",
                             !.faults = IF connOk THEN {} ELSE {"connect"},
                             !.out = get_views_for_agent(stores[s][1].views, connOk, broken),
                             !.conn = get_views_for_agent_connections(stores[s][1].views, connOk, broken)]
    /\ UNCHANGED <<file, stores, agent, broken, clock, lastMutation, saveFailures, procs, llm, front>>

\* the import of routes/query.py: sql_agent = SQLAgent(), and None when that
\* raises; SQLAgent() builds a ViewManager, which writes the file when there is
\* none, probes the columns of every view and only then looks for the API key
ImportQueryRoutes(connOk, keyOk) ==
    /\ LET r == load_views_config(file, TRUE, clock) IN
         /\ file' = r.file
         /\ agent' = IF keyOk
                     THEN [state |-> "ready", views |-> r.loaded[1].views,
                           available_views |-> get_views_for_agent(r.loaded[1].views, connOk, broken)]
                     ELSE NoAgent
         /\ ret' = [NoCall EXCEPT !.op = "import_query_routes", !.api_key = keyOk,
                                  !.result = IF keyOk THEN "ok" ELSE "ConfigurationError",
                                  !.conn = get_views_for_agent_connections(r.loaded[1].views, connOk, broken)]
    /\ UNCHANGED <<stores, broken, clock, lastMutation, saveFailures, procs, llm, front>>

\* GET /health (health_check): ViewManager() and then SQLAgent(), each in a try
\* of its own, built to see whether they can be and dropped; the first writes
\* the file when there is none, the second builds one more ViewManager, probes
\* the columns of every view and then looks for the API key; the agent of
\* routes/query.py is not touched.  disk and disk2 name the outcomes of the
\* bootstrap writes of the two constructors
HealthComponents(viewManagerOk, sqlAgentOk) ==
    (IF viewManagerOk THEN {} ELSE {"view_manager"}) \cup (IF sqlAgentOk THEN {} ELSE {"sql_agent"})

HealthCheck(connOk, keyOk, disk, disk2) ==
    /\ disk # "ok" => file = <<>> /\ saveFailures < MaxSaveFailures
    /\ LET r1 == load_views_config(file, disk = "ok", clock)
           f1 == FileAfterSave(r1.file, <<>>, FALSE, disk)
           n1 == IF r1.result = "SaveError" THEN saveFailures + 1 ELSE saveFailures
           r2 == load_views_config(f1, disk2 = "ok", clock)
           down == HealthComponents(r1.result = "ok", r2.result = "ok" /\ keyOk)
       IN  /\ disk2 # "ok" => f1 = <<>> /\ n1 < MaxSaveFailures
           /\ file' = FileAfterSave(r2.file, <<>>, FALSE, disk2)
           /\ saveFailures' = IF r2.result = "SaveError" THEN n1 + 1 ELSE n1
           /\ ret' = [NoCall EXCEPT !.op = "health_check", !.api_key = keyOk, !.status = 200,
                                    !.result = IF down = {} THEN "healthy" ELSE "degraded",
                                    !.failed = down,
                                    !.conn = IF r2.result = "ok"
                                             THEN get_views_for_agent_connections(r2.loaded[1].views, connOk, broken)
                                             ELSE <<>>]
    /\ UNCHANGED <<stores, agent, broken, clock, lastMutation, procs, llm, front>>

\* the record of a /query or chat call: the request and the response
QueryCall(op, debug, limit, r) ==
    [NoCall EXCEPT !.op = op, !.debug = debug, !.limit = limit,
                   !.status = r.status, !.result = r.result, !.error = r.error,
                   !.row_count = r.row_count,
                   !.shown = r.shown, !.text = r.text, !.events = r.events, !.conn = r.conn]

\* POST /query; out2 is the generator's answer to the debug call
AiQuery(debug, connOk, lenient, out2, tableRows) ==
    /\ ret' = QueryCall("ai_query", debug, <<>>,
                        ai_query(agent.state, agent.views, llm, out2, debug, connOk, broken, lenient, tableRows))
    /\ UNCHANGED <<file, stores, agent, broken, clock, lastMutation, saveFailures, procs, llm, front>>

\* GET /query
AiQueryGet(debug, limit, connOk, lenient, tableRows) ==
    /\ ret' = QueryCall("ai_query_get", debug, limit,
                        ai_query_get(agent.state, agent.views, llm, debug, limit, connOk, broken, lenient, tableRows))
    /\ UNCHANGED <<file, stores, agent, broken, clock, lastMutation, saveFailures, procs, llm, front>>

\* the record of a front-end call
FrontCall(op, question, debug, keyOk, r) ==
    [QueryCall(op, debug, <<>>, r) EXCEPT !.question = question, !.api_key = keyOk]

\* process_query of query_chat.py, on the agent of that module
ProcessQuery(question, debug, keyOk, connOk, lenient, out2, tableRows) ==
    /\ \E r \in {process_query(front["chat"], question, llm, out2, debug, keyOk, connOk, broken, lenient,
                               tableRows)} :
         /\ front' = [front EXCEPT !["chat"] = r.agent]
         /\ ret' = FrontCall("process_query", question, debug, keyOk, r)
    /\ UNCHANGED <<file, stores, agent, broken, clock, lastMutation, saveFailures, procs, llm>>

\* POST /query of query_web.py, on the agent of that module
WebQuery(question, debug, keyOk, connOk, lenient, out2, tableRows) ==
    /\ \E r \in {web_query(front["web"], question, llm, out2, debug, keyOk, connOk, broken, lenient,
                           tableRows)} :
         /\ front' = [front EXCEPT !["web"] = r.agent]
         /\ ret' = FrontCall("web_query", question, debug, keyOk, r)
    /\ UNCHANGED <<file, stores, agent, broken, clock, lastMutation, saveFailures, procs, llm>>

\* on_startup of the chat front-end, run at every load of the page:
\* initialize_agent, whatever agent there is, and its message
ChatStartup(keyOk) ==
    /\ front' = [front EXCEPT !["chat"] = initialize_agent(@, keyOk)]
    /\ ret' = [NoCall EXCEPT !.op = "chat_startup", !.api_key = keyOk,
                             !.result = IF keyOk THEN "ok" ELSE "ConfigurationError"]
    /\ UNCHANGED <<file, stores, agent, broken, clock, lastMutation, saveFailures, procs, llm>>

\* GET /status of query_web.py: initialize_agent, whatever agent there is
WebStatus(keyOk) ==
    /\ front' = [front EXCEPT !["web"] = initialize_agent(@, keyOk)]
    /\ ret' = [NoCall EXCEPT !.op = "web_status", !.api_key = keyOk,
                             !.result = IF keyOk THEN "ok" ELSE "ConfigurationError"]
    /\ UNCHANGED <<file, stores, agent, broken, clock, lastMutation, saveFailures, procs, llm>>

\* SQLAgent._create_system_prompt; without available_views it is an AttributeError
BuildPrompt ==
    /\ agent.state # "none"
    /\ ret' = IF agent.state = "ready"
              THEN [NoCall EXCEPT !.op = "prompt", !.result = "ok",
                                  !.tokens = PromptTokens(create_system_prompt(agent.available_views))]
              ELSE [NoCall EXCEPT !.op = "prompt", !.result = "AttributeError"]
    /\ UNCHANGED <<file, stores, agent, broken, clock, lastMutation, saveFailures, procs, llm, front>>

-----------------------------------------------------------------------------
(* Specifications *)

\* The View Store alone: one ViewManager, the clock, a failing disk
StoreNext ==
    \/ Tick
    \/ \E s \in StoreIds, disk \in {"ok", "save"} : Construct(s, disk) /\ UNCHANGED lastMutation
    \/ \E s \in StoreIds, n \in ViewNames \cup {InvalidIdentifier}, input \in CreateInputs, replace \in BOOLEAN,
          env \in {"ok", "connect", "save"} :
         Create(s, n, input, replace, env) /\ UNCHANGED lastMutation
    \/ \E s \in StoreIds, n \in ViewNames, env \in {"ok", "connect", "drop_view", "save"} :
         Delete(s, n, env) /\ UNCHANGED lastMutation

Spec == Init /\ [][StoreNext]_vars

\* The agent over the View Store: timestamps and disk failures play no part in
\* what the agent materializes or prints, so the clock stands and the disk works
AgentNext ==
    \/ \E s \in StoreIds : Construct(s, "ok") /\ UNCHANGED lastMutation
    \/ \E s \in StoreIds, n \in ViewNames, input \in CreateInputs, replace \in BOOLEAN :
         Create(s, n, input, replace, "ok") /\ Track
    \/ \E s \in StoreIds, n \in ViewNames : Delete(s, n, "ok") /\ Track
    \/ \E q \in Breakable : DataLakeChange(q)
    \/ \E connOk \in BOOLEAN, keyOk \in BOOLEAN : AgentInit(connOk, keyOk)
    \/ AgentBare
    \/ \E sql \in CallerSql, connOk \in BOOLEAN, lenient \in BOOLEAN : Execute(sql, connOk, lenient)
    \/ \E s \in StoreIds, n \in ViewNames, connOk \in BOOLEAN : ExecuteView(s, n, <<>>, connOk, 0)
    \/ BuildPrompt

SpecAgent == Init /\ [][AgentNext]_vars

\* create_default_views on a ViewManager, with the data lake and a failing disk
DefaultsNext ==
    \/ \E s \in StoreIds : Construct(s, "ok") /\ UNCHANGED lastMutation
    \/ \E s \in StoreIds, envs \in DefaultsEnvs :
         CreateDefaults(s, envs) /\ UNCHANGED lastMutation
    \/ LakeOutage

SpecDefaults == Init /\ [][DefaultsNext]_vars

\* The View Store on a disk whose writes can fail after open() truncated the file
DiskNext ==
    \/ \E s \in StoreIds, disk \in {"ok", "dump"} : Construct(s, disk) /\ UNCHANGED lastMutation
    \/ \E s \in StoreIds, n \in ViewNames, input \in CreateInputs, replace \in BOOLEAN, env \in {"ok", "dump"} :
         Create(s, n, input, replace, env) /\ UNCHANGED lastMutation
    \/ \E s \in StoreIds, n \in ViewNames, env \in {"ok", "dump"} :
         Delete(s, n, env) /\ UNCHANGED lastMutation

SpecDisk == Init /\ [][DiskNext]_vars

\* Two processes, each building its own ViewManager and calling
\* create_view(replace=True), their file steps interleaved, on a file that is
\* absent or that a third ViewManager wrote before they started
RaceNext ==
    \/ Tick
    \/ \E s \in StoreIds : RaceNotBegun /\ Construct(s, "ok") /\ UNCHANGED lastMutation
    \/ \E s \in StoreIds, n \in ViewNames, input \in CreateInputs :
         RaceNotBegun /\ Create(s, n, input, TRUE, "ok") /\ UNCHANGED lastMutation
    \/ \E p \in Racers : ProcConstruct(p)
    \/ \E p \in Racers : ProcBootOpen(p)
    \/ \E p \in Racers : ProcBootDump(p)
    \/ \E p \in Racers, n \in ViewNames, input \in CreateInputs : ProcCreateView(p, n, input)
    \/ \E p \in Racers : ProcOpenFile(p)
    \/ \E p \in Racers : ProcDumpFile(p)

SpecRace == Init /\ [][RaceNext]_vars

\* generate_sql as a function of what the API answers
GenNext == Generate

SpecGen == InitGen /\ [][GenNext]_vars

\* ask on an agent over the View Store
AskNext ==
    \/ \E s \in StoreIds : Construct(s, "ok") /\ UNCHANGED lastMutation
    \/ \E s \in StoreIds, n \in ViewNames, input \in CreateInputs :
         Create(s, n, input, TRUE, "ok") /\ UNCHANGED lastMutation
    \/ \E q \in Breakable : DataLakeChange(q)
    \/ \E connOk \in BOOLEAN, keyOk \in BOOLEAN : AgentInit(connOk, keyOk)
    \/ \E out \in AskOutputs : LlmAnswers(out)
    \/ \E connOk \in BOOLEAN, lenient \in BOOLEAN : Ask(connOk, lenient)

SpecAsk == Init /\ [][AskNext]_vars

\* Several ViewManager instances on one file, each call run to its end before
\* the next begins, with the history of the successful calls
SharedNext ==
    \/ \E s \in StoreIds : Construct(s, "ok") /\ UNCHANGED lastMutation
    \/ \E p \in Racers : InstanceConstruct(p)
    \/ \E p \in Racers, n \in ViewNames, input \in CreateInputs, replace \in BOOLEAN :
         InstanceCreate(p, n, input, replace) /\ Track
    \/ \E p \in Racers, n \in ViewNames : InstanceDelete(p, n) /\ Track

SpecShared == Init /\ [][SharedNext]_vars

\* execute_query as a function of the result set the engine produced
RowsNext == \E res \in ResultSets : ExecuteFetch(res)

SpecRows == Init /\ [][RowsNext]_vars

\* The operations that only read, on a View Store that is written between
\* them and a clock that advances
ReadNext ==
    \/ Tick
    \/ \E s \in StoreIds : Construct(s, "ok") /\ UNCHANGED lastMutation
    \/ \E s \in StoreIds, input \in CreateInputs :
         Create(s, "foo", input, TRUE, "ok") /\ UNCHANGED lastMutation
    \/ \E connOk \in BOOLEAN, keyOk \in BOOLEAN : AgentInit(connOk, keyOk)
    \/ \E out \in AskOutputs : LlmAnswers(out)
    \/ \E s \in StoreIds, n \in ViewNames : GetView(s, n)
    \/ \E s \in StoreIds : ListViews(s)
    \/ \E s \in StoreIds, n \in ViewNames, connOk \in BOOLEAN, describeOk \in BOOLEAN :
         DescribeColumns(s, n, connOk, describeOk)
    \/ \E s \in StoreIds, connOk \in BOOLEAN : ViewsForAgent(s, connOk)
    \/ BuildPrompt
    \/ Generate
    \/ \E sql \in CallerSql, connOk \in BOOLEAN, lenient \in BOOLEAN : Execute(sql, connOk, lenient)

SpecRead == Init /\ [][ReadNext]_vars

\* The /query routes over an agent built at import, a generator whose answers
\* vary from call to call, and the /health route of the same application
QueryNext ==
    \/ \E connOk \in BOOLEAN, keyOk \in BOOLEAN : ImportQueryRoutes(connOk, keyOk)
    \/ \E out \in ApiOutputs : LlmAnswers(out)
    \/ \E debug \in BOOLEAN, connOk \in BOOLEAN, lenient \in BOOLEAN, out2 \in ApiOutputs, tableRows \in 0..MaxRows :
         AiQuery(debug, connOk, lenient, out2, tableRows)
    \/ \E debug \in BOOLEAN, limit \in {<<>>} \cup {<<l>> : l \in 1..MaxLimit}, connOk \in BOOLEAN,
          lenient \in BOOLEAN, tableRows \in 0..MaxRows :
         AiQueryGet(debug, limit, connOk, lenient, tableRows)
    \/ \E connOk \in BOOLEAN, keyOk \in BOOLEAN, disk \in {"ok", "save", "dump"}, disk2 \in {"ok", "save", "dump"} :
         HealthCheck(connOk, keyOk, disk, disk2)

SpecQuery == Init /\ [][QueryNext]_vars

\* The chat and the web front-end, each a process with the agent of its own
\* module, and a generator whose answers vary from call to call
FrontNext ==
    \/ \E out \in ApiOutputs \cup AskOutputs : LlmAnswers(out)
    \/ \E question \in Questions, debug \in BOOLEAN, keyOk \in BOOLEAN, connOk \in BOOLEAN, lenient \in BOOLEAN,
          out2 \in ApiOutputs, tableRows \in 0..MaxRows :
         ProcessQuery(question, debug, keyOk, connOk, lenient, out2, tableRows)
    \/ \E question \in Questions, debug \in BOOLEAN, keyOk \in BOOLEAN, connOk \in BOOLEAN, lenient \in BOOLEAN,
          out2 \in ApiOutputs, tableRows \in 0..MaxRows :
         WebQuery(question, debug, keyOk, connOk, lenient, out2, tableRows)
    \/ \E keyOk \in BOOLEAN : WebStatus(keyOk)
    \/ \E keyOk \in BOOLEAN : ChatStartup(keyOk)

SpecFront == Init /\ [][FrontNext]_vars

\* The /views routes on the ViewManager of routes/views.py
ViewsNext ==
    \/ \E s \in StoreIds : Construct(s, "ok") /\ UNCHANGED lastMutation
    \/ \E s \in StoreIds, n \in ViewNames, input \in CreateInputs :
         Create(s, n, input, TRUE, "ok") /\ UNCHANGED lastMutation
    \/ \E s \in StoreIds, n \in ViewNames : Delete(s, n, "ok") /\ UNCHANGED lastMutation
    \/ \E q \in Breakable : DataLakeChange(q)
    \/ \E s \in StoreIds, n \in ViewNames : GetViewDetails(s, n)
    \/ \E s \in StoreIds, n \in ViewNames, connOk \in BOOLEAN, describeOk \in BOOLEAN :
         DescribeColumns(s, n, connOk, describeOk)
    \/ \E s \in StoreIds, connOk \in BOOLEAN : ViewsForAgent(s, connOk)
    \/ \E s \in StoreIds, n \in ViewNames, limit \in {<<>>} \cup {<<l>> : l \in 1..MaxLimit}, connOk \in BOOLEAN,
          viewRows \in 0..MaxRows :
         ExecuteView(s, n, limit, connOk, viewRows)

SpecViews == Init /\ [][ViewsNext]_vars

-----------------------------------------------------------------------------
(* Properties of the View Store, checked under Spec *)

\* self.views["views"] of a constructed ViewManager
ViewsOf(s) == stores[s][1].views

\* the views mapping of the file, empty while the file is absent
FileViews == IF file = <<>> THEN <<>> ELSE file[1].views

\* C1: a create(n, replace=false) on a ViewManager that holds n fails with the
\* duplicate-name error, writes nothing and leaves every definition as it was;
\* a create that succeeded leaves n in the mapping, and n leaves the mapping of
\* an instance only through delete (or through building the instance anew).
C1_DuplicateCreateRejected ==
    [][\A s \in StoreIds :
          /\ (ret'.op = "create" /\ ret'.store = s /\ ~ret'.replace /\ Has(ViewsOf(s), ret'.name))
                => /\ ret'.result = "DuplicateNameError"
                   /\ file' = file
                   /\ stores' = stores
          /\ (ret'.op = "create" /\ ret'.store = s /\ ret'.result = "True")
                => Has(stores'[s][1].views, ret'.name)
          /\ \A n \in ViewNames :
                (stores[s] # <<>> /\ Has(ViewsOf(s), n) /\ ~Has(stores'[s][1].views, n))
                   => ret'.op \in {"delete", "construct"}
      ]_vars

C1_Witness ==
    /\ ret.op = "create"
    /\ ~ret.replace
    /\ ret.result = "DuplicateNameError"
    /\ get_view(stores[ret.store][1], ret.name) # <<>>

\* C2: a create whose connection, probe or CREATE OR REPLACE VIEW step fails
\* raises the invalid-definition error and changes neither the file nor the
\* in-memory mapping, with replace true or false; and every definition a create
\* puts into a mapping or into the file has a body the engine ran and a name
\* the engine took in that call.
C2_FailedValidationWritesNothing ==
    [][ret'.op = "create" =>
          /\ ret'.step \in {"connect", "probe", "create_view"} <=> ret'.result = "InvalidViewDefinitionError"
          /\ ret'.result = "InvalidViewDefinitionError" => file' = file /\ stores' = stores
          /\ \A n \in ViewNames \cup {InvalidIdentifier} :
                /\ (file' # <<>> /\ get_view(file'[1], n) # <<>> /\ (file = <<>> \/ get_view(file'[1], n) # get_view(file[1], n)))
                      => ~Fails(get_view(file'[1], n)[1].sql_query, broken) /\ IsSqlIdentifier(n)
                /\ \A s \in StoreIds :
                      (get_view(stores'[s][1], n) # <<>> /\ get_view(stores'[s][1], n) # get_view(stores[s][1], n))
                         => ~Fails(get_view(stores'[s][1], n)[1].sql_query, broken) /\ IsSqlIdentifier(n)
      ]_vars

C2_Witness ==
    /\ ret.op = "create"
    /\ ret.result = "InvalidViewDefinitionError"
    /\ ret.step = "probe"
    /\ ret.replace
    /\ ret.existed
    /\ get_view(stores[ret.store][1], ret.name) # <<>>
    /\ get_view(file[1], ret.name) = get_view(stores[ret.store][1], ret.name)

\* C3: while a name stays in a ViewManager's mapping its created timestamp
\* keeps the value of the first insert, whatever is called (a replacing create
\* included), and a successful create sets updated to the time of the call.
C3_CreatedNeverChanges ==
    [][\A s \in StoreIds, n \in ViewNames :
          /\ (stores[s] # <<>> /\ stores'[s] # <<>> /\ Has(ViewsOf(s), n) /\ Has(stores'[s][1].views, n))
                => get_view(stores'[s][1], n)[1].created = get_view(stores[s][1], n)[1].created
          /\ (ret'.op = "create" /\ ret'.store = s /\ ret'.name = n /\ ret'.result = "True")
                => get_view(stores'[s][1], n)[1].updated = clock'
      ]_vars

\* C4: a successful create(n, d2, q2, t2, replace=true) on a ViewManager that
\* holds n leaves get(n) with description d2, body q2, tags t2 (the empty list
\* for None) and updated set to the time of the call, not earlier than before;
\* the file holds the same definition, and get(m) of that ViewManager is what
\* it was for every other name m.
C4_ReplaceOverwrites ==
    [][\A s \in StoreIds :
          (ret'.op = "create" /\ ret'.store = s /\ ret'.replace /\ ret'.result = "True" /\ Has(ViewsOf(s), ret'.name))
             => LET g == get_view(stores'[s][1], ret'.name) IN
                /\ g # <<>>
                /\ g[1].name = ret'.name
                /\ g[1].description = ret'.input.description
                /\ g[1].sql_query = ret'.input.sql_query
                /\ g[1].tags = (IF ret'.input.tags = <<>> THEN <<>> ELSE ret'.input.tags[1])
                /\ g[1].updated = clock'
                /\ g[1].updated >= get_view(stores[s][1], ret'.name)[1].updated
                /\ file' # <<>>
                /\ get_view(file'[1], ret'.name) = g
                /\ \A m \in ViewNames \ {ret'.name} : get_view(stores'[s][1], m) = get_view(stores[s][1], m)
      ]_vars

C4_Witness ==
    /\ ret.op = "create"
    /\ ret.replace
    /\ ret.existed
    /\ ret.result = "True"
    /\ Len(ViewsOf(ret.store)) = 2
    /\ get_view(stores[ret.store][1], ret.name)[1].updated > 0
    /\ get_view(file[1], ret.name) = get_view(stores[ret.store][1], ret.name)

\* C5: delete(n) on a ViewManager that does not hold n returns False and
\* changes neither the mapping nor the file; on one that holds n it never
\* returns False, and when it returns True, n is gone from the mapping and from
\* the file, get(m) is unchanged for every other name m, and another delete(n)
\* returns False.
C5_DeleteOnce ==
    [][\A s \in StoreIds :
          (ret'.op = "delete" /\ ret'.store = s) =>
             IF ~Has(ViewsOf(s), ret'.name)
             THEN ret'.result = "False" /\ file' = file /\ stores' = stores
             ELSE /\ ret'.result # "False"
                  /\ ret'.result = "True" =>
                       /\ get_view(stores'[s][1], ret'.name) = <<>>
                       /\ file' # <<>>
                       /\ get_view(file'[1], ret'.name) = <<>>
                       /\ \A m \in ViewNames \ {ret'.name} : get_view(stores'[s][1], m) = get_view(stores[s][1], m)
                       /\ delete_view(stores'[s][1], ret'.name, TRUE, TRUE, TRUE, clock').result = "False"
      ]_vars

C5_Witness ==
    /\ ret.op = "delete"
    /\ ret.existed
    /\ ret.result = "True"
    /\ Len(ViewsOf(ret.store)) = 1
    /\ get_view(stores[ret.store][1], ret.name) = <<>>

\* C6: when opening the connection or DROP VIEW IF EXISTS fails in delete(n) on
\* a ViewManager that holds n, delete raises the engine's error instead of
\* returning, and n stays in the mapping; mapping and file are as before.
C6_DeleteEngineFailureRaises ==
    [][\A s \in StoreIds :
          (ret'.op = "delete" /\ ret'.store = s /\ Has(ViewsOf(s), ret'.name) /\ ret'.step \in {"connect", "drop_view"})
             => /\ ret'.result = "EngineError"
                /\ Has(stores'[s][1].views, ret'.name)
                /\ stores' = stores
                /\ file' = file
      ]_vars

C6_Witness ==
    /\ ret.op = "delete"
    /\ ret.existed
    /\ ret.step = "drop_view"
    /\ ret.result = "EngineError"
    /\ get_view(stores[ret.store][1], ret.name) # <<>>
    /\ get_view(file[1], ret.name) # <<>>

-----------------------------------------------------------------------------
(* Properties of the agent, checked under SpecAgent *)

\* the place of the caller's statement among the statements of an execute
CallerStmt(stmts) == CHOOSE i \in 1..Len(stmts) : stmts[i].kind = "sql"

\* C7: whenever execute of an agent built by SQLAgent() has run the caller's
\* SQL, a CREATE OR REPLACE VIEW was issued before it in that connection for
\* every view of the View Store file; and after a successful create(v) on the
\* View Store, SELECT * FROM v succeeds while v's body still runs at the
\* engine, whenever the agent was constructed.
C7_StoreViewsMaterializedBeforeSql ==
    (ret.op = "execute" /\ ret.step # "connect" /\ agent.state = "ready") =>
        /\ \A n \in Keys(FileViews) :
              \E i \in 1..Len(ret.stmts) :
                 /\ ret.stmts[i].kind = "create_view"
                 /\ ret.stmts[i].name = n
                 /\ i < CallerStmt(ret.stmts)
        /\ (/\ ret.sql.source = "view"
            /\ lastMutation[ret.sql.text] = "create"
            /\ Has(FileViews, ret.sql.text)
            /\ CreateViewOk(DictGet(FileViews, ret.sql.text)[1], broken))
              => ret.result = "rows"

\* C8: in an execute that reached the views, every view of the agent's
\* ViewManager whose CREATE OR REPLACE VIEW the engine accepts is materialized
\* in the connection before the caller's SQL, wherever a failing view stands.
C8_FailingViewSkipped ==
    (ret.op = "execute" /\ ret.step # "connect" /\ agent.state = "ready") =>
        \A i \in 1..Len(agent.views) :
           CreateViewOk(agent.views[i], broken) =>
              \E j \in 1..Len(ret.stmts) :
                 /\ ret.stmts[j].kind = "create_view"
                 /\ ret.stmts[j].name = agent.views[i].name
                 /\ ret.stmts[j].ok
                 /\ j < CallerStmt(ret.stmts)

\* C9: once the connection of an execute is configured, the caller's SQL is
\* always run, as the last statement; SQL over no view that the engine runs
\* returns its rows whether or not views failed to materialize and whether or
\* not the agent has a view manager.
C9_ViewFailureNeverBlocksSql ==
    (ret.op = "execute" /\ ret.step # "connect") =>
        /\ Len(ret.stmts) >= 1
        /\ ret.stmts[Len(ret.stmts)].kind = "sql"
        /\ ret.stmts[Len(ret.stmts)].name = ret.sql.text
        /\ (ret.sql.source = "raw" /\ ~Fails(ret.sql.text, broken)) => ret.result = "rows"

C9_Witness ==
    /\ ret.op = "execute"
    /\ ret.sql.source = "raw"
    /\ ret.result = "rows"
    /\ agent.state = "ready"
    /\ Len(agent.views) = 2
    /\ \E i \in 1..Len(ret.stmts) : ret.stmts[i].kind = "create_view" /\ ~ret.stmts[i].ok

\* C10: a prompt built after the last successful mutation of a name was a
\* create contains the name, and one built after it was a delete does not.
C10_PromptFollowsStore ==
    (ret.op = "prompt" /\ ret.result = "ok") =>
        \A n \in ViewNames :
           /\ lastMutation[n] = "create" => n \in ret.tokens
           /\ lastMutation[n] = "delete" => n \notin ret.tokens

\* C11: whatever step of an execute fails (httpfs and the S3 settings, the
\* views, the caller's SQL or its rows) and when none does, the connection the
\* call opened is closed when the call ends: its last event is the close, and
\* no connection of the call is left open.
C11_ExecuteClosesConnection ==
    ret.op = "execute" =>
        /\ Len(ret.conn) >= 2
        /\ ret.conn[1] = "open"
        /\ ret.conn[Len(ret.conn)] = "close"
        /\ OpenConnections(ret.conn) = 0

C11_Witness ==
    /\ ret.op = "execute"
    /\ ret.result = "QueryExecutionError"
    /\ ret.step = "sql"
    /\ ret.conn = <<"open", "close">>

\* C12: after a create, a delete, the column descriptions of an agent's
\* construction or an execute-view of the API has returned or raised, no
\* connection that call opened is still open, whichever step failed.
C12_StoreOperationsCloseConnection ==
    ret.op \in {"create", "delete", "agent_init", "execute_view"} => OpenConnections(ret.conn) = 0

-----------------------------------------------------------------------------
(* Properties of create_default_views, checked under SpecDefaults *)

\* C13: create_default_views never raises; called on a ViewManager that holds
\* no view but default ones (the empty store, and the store a first call
\* left) while the engine runs the five bodies and the file can be written,
\* no create_view of it fails and the ViewManager and the file then hold the
\* five default names and no other, each returned by get_view; so a second
\* call in succession leaves the names of the first.
C13_DefaultsTwiceLeaveFive ==
    [][\A s \in StoreIds :
          (ret'.op = "create_defaults" /\ ret'.store = s) =>
             /\ ret'.result = "None"
             /\ (ret'.faults = {} /\ Keys(ViewsOf(s)) \subseteq DefaultNames) =>
                   /\ ret'.failed = {}
                   /\ Keys(stores'[s][1].views) = DefaultNames
                   /\ Len(stores'[s][1].views) = Cardinality(DefaultNames)
                   /\ file' # <<>>
                   /\ Keys(file'[1].views) = DefaultNames
                   /\ \A n \in DefaultNames :
                         /\ get_view(stores'[s][1], n) # <<>>
                         /\ get_view(file'[1], n) = get_view(stores'[s][1], n)
                   /\ ret'.existed => Keys(stores'[s][1].views) = Keys(ViewsOf(s))
      ]_vars

C13_Witness ==
    /\ ret.op = "create_defaults"
    /\ ret.existed
    /\ ret.faults = {}
    /\ ret.failed = {}
    /\ Keys(ViewsOf(ret.store)) = DefaultNames
    /\ Keys(FileViews) = DefaultNames

\* C14: when an engine call or the file write fails inside create_view,
\* delete_view or create_default_views, the call ends with an error its caller
\* sees instead of returning normally.
C14_NoErrorSwallowed ==
    /\ (ret.op = "create_defaults" /\ ret.faults # {}) => ret.result # "None"
    /\ (ret.op = "create" /\ ret.step \in {"connect", "probe", "create_view", "save"}) => ret.result # "True"
    /\ (ret.op = "delete" /\ ret.step \in {"connect", "drop_view", "save"}) => ret.result \notin {"True", "False"}

-----------------------------------------------------------------------------
(* Properties of the backing file, checked under SpecDisk *)

\* C15: whatever a create or a delete does, and also when its write fails
\* part-way, the file afterwards is either what it was before the call or the
\* complete document of the ViewManager after the call; it is never an empty
\* or partial document.
C15_FileCompleteBeforeOrAfter ==
    [][ret'.op \in {"create", "delete"} =>
          \/ file' = file
          \/ IsParseable(file') /\ file' = stores'[ret'.store]
      ]_vars

\* C16: a ViewManager built on a file that exists and does not parse tells its
\* caller (the construction does not end normally), and no create or delete
\* that succeeds afterwards replaces the unparseable file.
C16_CorruptionSurfaced ==
    [][(file # <<>> /\ ~IsParseable(file)) =>
          /\ ret'.op = "construct" => ret'.result # "ok"
          /\ (ret'.op \in {"create", "delete"} /\ ret'.result = "True") => file' = file
      ]_vars

-----------------------------------------------------------------------------
(* Properties of concurrent create_view calls, checked under SpecRace *)

\* C17: when the two processes have both returned True from a
\* create_view(n, ..., replace=True) on the same name n, the file is a document
\* whose definition of n is the one of the process that wrote the file last,
\* whole and with no field of the other call.
C17_LastWriterWins ==
    (/\ \A p \in Racers : procs[p].pc = "done" /\ procs[p].result = "True"
     /\ \A p, q \in Racers : procs[p].name = procs[q].name)
       => \E last \in Racers :
             /\ procs[last].wrote = Cardinality(Racers)
             /\ IsParseable(file)
             /\ get_view(file[1], procs[last].name) = get_view(procs[last].views[1], procs[last].name)

-----------------------------------------------------------------------------
(* Properties of ask and generate_sql, checked under SpecAsk and SpecGen *)

\* C18: in an ask the generation is the first thing done and is over before a
\* connection is opened or a statement run; the statement run for the caller
\* is the text generate_sql returned for the API's answer, cleaned; and when
\* the generation raises, the ask raises that error with no connection opened
\* and no statement run.
C18_GenerationPrecedesExecution ==
    ret.op = "ask" =>
        /\ ret.events # <<>>
        /\ ret.events[1] = "generate"
        /\ \A i \in 2..Len(ret.events) : ret.events[i] # "generate"
        /\ llm.kind = "raises" =>
              /\ ret.events = <<"generate">>
              /\ ret.conn = <<>>
              /\ ret.stmts = <<>>
              /\ ret.result = "GenerationError"
        /\ llm.kind = "text" =>
              /\ ret.text = generate_sql(llm).sql
              /\ \A i \in 1..Len(ret.stmts) : ret.stmts[i].kind = "sql" => ret.stmts[i].name = ret.text

C18_Witness ==
    /\ ret.op = "ask"
    /\ llm = [kind |-> "text", text |-> FencedBlock("sql", <<Statement>>)]
    /\ ret.result = "rows"
    /\ Len(agent.views) = 2
    /\ ret.events = <<"generate", "open", "execute", "execute", "execute", "close">>
    /\ ret.stmts[Len(ret.stmts)].name = <<Statement>>

\* C19: for every text the API answers, generate_sql returns text with no
\* fence in it and no white space at either end; a block fenced with the tag
\* sql, in lower or upper case, yields the statement inside and nothing else;
\* and text without a fence is returned as it is, stripped.
C19_FencesStripped ==
    (ret.op = "generate" /\ llm.kind = "text") =>
        /\ \A i \in 1..Len(ret.text) : ret.text[i] # Fence
        /\ ret.text = Strip(ret.text)
        /\ \A tag \in LanguageTags : llm.text = FencedBlock(tag, <<Statement>>) => ret.text = <<Statement>>
        /\ (\A i \in 1..Len(llm.text) : llm.text[i] # Fence) => ret.text = Strip(llm.text)

\* text that is empty, white space only, or nothing but fences and their tags
IsEmptyText(text) ==
    \A i \in 1..Len(text) :
       \/ text[i] \in {Fence, Newline}
       \/ text[i] \in LanguageTags /\ i > 1 /\ text[i - 1] = Fence

\* C20: generate_sql raises the generation error when the API call raises and
\* when its text is empty, white space only or nothing but fences; the text it
\* returns is never empty.
C20_EmptyGenerationRaises ==
    ret.op = "generate" =>
        /\ (llm.kind = "raises" \/ IsEmptyText(llm.text)) => ret.result = "GenerationError"
        /\ ret.result = "ok" => ret.text # <<>>

-----------------------------------------------------------------------------
(* Properties of the API routes and front-ends *)

\* C21: when the provider's API key is missing, SQLAgent() raises and the
\* module is left without an agent; from then on POST /query and GET /query
\* answer 503, and in answering they call neither the generator nor
\* execute_query and open no connection; a health check, which builds an agent
\* of its own, leaves the module's as it is.
C21_MissingKeyDisablesAgent ==
    [][/\ (ret'.op = "import_query_routes" /\ ~ret'.api_key) =>
             (ret'.result = "ConfigurationError" /\ agent'.state = "none")
       /\ (ret'.op \in {"ai_query", "ai_query_get"} /\ agent.state = "none") =>
             (ret'.status = 503 /\ ret'.events = <<>> /\ ret'.conn = <<>> /\ agent'.state = "none")
       /\ ret'.op = "health_check" => agent' = agent]_vars

\* the file has been written, the module has no agent, and a route answered
C21_Witness ==
    /\ file # <<>>
    /\ agent.state = "none"
    /\ ret.op \in {"ai_query", "ai_query_get"}
    /\ ret.status = 503

\* how many times a call ran generate_sql
Generations(events) == Cardinality({i \in 1..Len(events) : events[i] = "generate"})

\* C22: in debug mode the SQL text a response shows is the text that was
\* executed for its rows, and the call generated once; this for POST /query,
\* GET /query, the chat and the web front-end; and a query whose execution gave rows
\* is never answered with an error because of the debug display.
C22_DebugShowsExecutedSql ==
    ret.op \in {"ai_query", "ai_query_get", "process_query", "web_query"} =>
        /\ ret.shown # <<>> => (ret.shown[1] = ret.text /\ Generations(ret.events) = 1)
        /\ ret.result = "rows" => ~ret.error

-----------------------------------------------------------------------------
(* Properties of the View Store file and its instances *)

\* C23: ViewManager() on an absent file writes a file with the keys version,
\* created, last_updated and views, the views empty; ViewManager() on a file
\* that parses writes nothing, so the file stays as it was, last_updated
\* included, and the instance holds what the file holds: after the bootstrap,
\* the same empty mapping.
C23_BootstrapOnceThenReadOnly ==
    [][ret'.op = "construct" =>
         /\ (file = <<>> /\ ret'.result = "ok") =>
               /\ file' # <<>>
               /\ DOMAIN file'[1] = {"version", "created", "last_updated", "views"}
               /\ file'[1].views = <<>>
               /\ stores'[ret'.store] = file'
         /\ IsParseable(file) =>
               /\ file' = file
               /\ stores'[ret'.store] = file]_vars

\* a second ViewManager() on the bootstrap file, at a later time than its write
C23_Witness ==
    /\ ret.op = "construct"
    /\ ret.result = "ok"
    /\ IsParseable(file)
    /\ file[1].views = <<>>
    /\ clock > file[1].last_updated
    /\ stores[ret.store] = file

\* C24: _get_view_columns returns, whatever the name and whatever fails: for
\* a name that is not stored, a connection that fails, a body the engine
\* rejects or a DESCRIBE that fails it returns the empty sequence; and
\* get_views_for_agent returns one entry per stored view, in order, also when
\* a probe fails.
C24_DescribeColumnsNeverRaises ==
    /\ ret.op = "describe_columns" =>
          /\ ret.result = "returned"
          /\ (~ret.existed \/ ret.faults # {} \/
               (ret.existed /\ Fails(DictGet(ViewsOf(ret.store), ret.name)[1].sql_query, broken))) =>
                 ret.out = <<>>
    /\ ret.op = "get_views_for_agent" =>
          /\ ret.result = "returned"
          /\ Len(ret.out) = Len(ViewsOf(ret.store))
          /\ \A i \in 1..Len(ret.out) : ret.out[i].name = ViewsOf(ret.store)[i].name

\* two stored views listed, the probe of the first failed and that of the
\* second gave columns
C24_Witness ==
    /\ ret.op = "get_views_for_agent"
    /\ Len(ret.out) = 2
    /\ ret.out[1].sample_columns = <<>>
    /\ ret.out[2].sample_columns # <<>>

\* C25: on a built ViewManager, GET /views/{name} and GET /views/{name}/execute
\* answer 404 when the name is not in the ViewManager's mapping and only then,
\* and a 404 answer has opened no connection.
C25_NotFoundIffUnstored ==
    ret.op \in {"get_view_details", "execute_view"} =>
        /\ ret.status = 404 <=> ~Has(ViewsOf(ret.store), ret.name)
        /\ ret.status = 404 => ret.conn = <<>>

\* a store that holds a view answered 404 for the other name
C25_Witness ==
    /\ ret.op = "execute_view"
    /\ ret.status = 404
    /\ ViewsOf(ret.store) # <<>>
    /\ ~Has(ViewsOf(ret.store), ret.name)

\* C26: with several ViewManager instances on one file and calls that do not
\* overlap, after every call the file holds what the successful calls in
\* their order leave: a name whose last successful call was a create is in
\* the file, a name whose last successful call was a delete is not, and a
\* create with replace=False that returns True found no such name in the file.
C26_InstancesApplyCallsInOrder ==
    [][ret'.op \in {"create", "delete"} =>
         /\ \A n \in ViewNames :
               /\ lastMutation'[n] = "create" => Has(file'[1].views, n)
               /\ lastMutation'[n] = "delete" => ~Has(file'[1].views, n)
         /\ (ret'.op = "create" /\ ~ret'.replace /\ ret'.result = "True") =>
               ~Has(file[1].views, ret'.name)]_vars

\* C27: after every create_view, delete_view or create_default_views call on
\* a ViewManager, whether it returned or raised and also when its file write
\* failed, the instance's views mapping is the views mapping of the file
\* (one instance is the only writer of the file).
C27_MemoryEqualsFile ==
    (ret.op \in {"create", "delete", "create_defaults"} /\ IsParseable(file)) =>
        ViewsOf(ret.store) = FileViews

\* C28: a GET /query or GET /views/{name}/execute request that carries a
\* limit is answered with at most that many rows, whatever text the
\* generator answered.
C28_LimitBoundsRowCount ==
    (ret.op \in {"ai_query_get", "execute_view"} /\ ret.limit # <<>>) =>
        ret.row_count <= ret.limit[1]

-----------------------------------------------------------------------------
(* Properties of the rows execute_query returns *)

\* C29: execute_query returns one mapping per fetched row, in the order of the
\* rows, and each mapping has one entry per column of the result, the i-th
\* entry being the i-th column name with the i-th value of the row; for every
\* result, those with repeated column names included.
C29_OneEntryPerColumn ==
    (ret.op = "execute" /\ ret.result = "rows") =>
        /\ Len(ret.out) = Len(ret.rows)
        /\ \A r \in 1..Len(ret.out) :
              /\ Len(ret.out[r]) = Len(ret.columns)
              /\ \A i \in 1..Len(ret.out[r]) :
                    ret.out[r][i] = [name |-> ret.columns[i], value |-> ret.rows[r][i]]

-----------------------------------------------------------------------------
(* Frame of the operations that only read *)

\* C30: get_view, list_views, _get_view_columns, get_views_for_agent, the
\* prompt building, generate_sql and execute_query leave the View Store as it
\* was: every ViewManager's mapping, the agent's included, and the file with
\* its last_updated are the same after the call as before it.
C30_ReadOnlyOperationsChangeNothing ==
    [][ret'.op \in {"get_view", "list_views", "describe_columns", "get_views_for_agent",
                    "prompt", "generate", "execute"} =>
         /\ file' = file
         /\ stores' = stores
         /\ agent'.views = agent.views]_vars

\* a listing of a store that holds a view, at a later time than the last write
C30_Witness ==
    /\ ret.op = "list_views"
    /\ ret.out # <<>>
    /\ IsParseable(file)
    /\ clock > file[1].last_updated
    /\ stores[ret.store] = file

====
